---- MODULE Spec2Model ----
(***************************************************************************)
(* Structural text editing of the static page: the div-depth scans of     *)
(* merge_responsive.phase2_remove_mobile_sections and                      *)
(* create_nbs.remove_section, the span relocation of fix_sticky_cta(_v2),  *)
(* the stylesheet tokenizer/filter of                                      *)
(* merge_responsive._filter_mobile_rules, the style blocks of             *)
(* merge_responsive.phase4_remove_dead_css, step 19 of                     *)
(* extract_and_clean.clean_html, the identifier renames of                 *)
(* rename_ids.rename_ids and rename_content_ids.main with its name         *)
(* generators, and the runs of rename_ids, merge_responsive.main,          *)
(* optimize_site.main and cleanup.main on the files they leave.            *)
(*                                                                         *)
(* A document is a sequence of lexemes.  Each lexeme stands for the        *)
(* character string of its name and is atomic for every pattern the code   *)
(* searches for: '<div' occurs exactly at a "<div" lexeme, '</div>' at a    *)
(* "</div>" lexeme, the regex <div[\s>] at a "<div" lexeme followed by " "  *)
(* or ">", and the marker id="X" at the lexeme "id=X".  Offsets are         *)
(* Python's 0-based offsets counted in lexemes: the lexeme at offset p of   *)
(* h is h[p+1], and the slice h[a:b] is SubSeq(h, a+1, b) for offsets in    *)
(* range.                                                                   *)
(***************************************************************************)
EXTENDS Integers, Sequences, FiniteSets, TLC

VARIABLES
    script,      \* which script runs: "merge", "nbs", "rename_ids", ...
    pc,          \* position of the script: "loop", "done", "start", "written",
                 \* "raised" after an exception, or the phase it is in
    html0,       \* the document the script read
    html,        \* the script's variable html
    prevHtml,    \* html before the last loop iteration
    queue,       \* the section ids the loop has still to visit
    report,      \* one record per visited section: what was printed, and the span
    block_text,  \* _filter_mobile_rules: the argument block_text
    chunks,      \* _filter_mobile_rules: the list chunks, of (kind, text)
    filtered,    \* _filter_mobile_rules: the returned text ''.join(kept)
    removed_bytes, \* _filter_mobile_rules: the returned count
    files,       \* the files on disk, file name -> content
    runs         \* the number of runs of the script before the current one

htmlVars == <<script, pc, html0, html, prevHtml, queue, report>>
cssVars == <<block_text, chunks, filtered, removed_bytes>>
vars == <<htmlVars, cssVars, files, runs>>

\* the stylesheet variables of a script that calls no stylesheet function
NoCss == block_text = <<>> /\ chunks = <<>> /\ filtered = <<>> /\ removed_bytes = 0

\* no file: the scripts that work on a string they are given
NoFiles == <<>>

----------------------------------------------------------------------------
(* Bounds of the model *)

MaxPieces == 4
MaxNest == 3

----------------------------------------------------------------------------
(* Python string primitives on lexeme sequences *)

\* a slice index as Python reads it: negative counts from the end, clamped to 0 .. len
SliceIndex(h, i) ==
    IF i < 0 THEN (IF Len(h) + i < 0 THEN 0 ELSE Len(h) + i)
    ELSE IF i > Len(h) THEN Len(h) ELSE i

\* h[a:b]
Slice(h, a, b) ==
    IF SliceIndex(h, a) >= SliceIndex(h, b) THEN <<>>
    ELSE SubSeq(h, SliceIndex(h, a) + 1, SliceIndex(h, b))

Last(q) == q[Len(q)]
Range(q) == {q[i] : i \in 1 .. Len(q)}

Min(S) == CHOOSE x \in S : \A y \in S : x <= y
Max(S) == CHOOSE x \in S : \A y \in S : x >= y

\* str.find(tok, from): the least offset >= from holding tok, or -1
Find(h, tok, from) ==
    LET hits == {p \in from .. Len(h) - 1 : h[p + 1] = tok}
    IN  IF hits = {} THEN -1 ELSE Min(hits)

RFind_Unbounded(h, tok, before) ==
    LET hits == {p \in 0 .. Len(h) - 1 : h[p + 1] = tok}
    IN  IF hits = {} THEN -1 ELSE Max(hits)
\* str.rfind(tok, 0, before): the greatest offset < before holding tok, or -1
RFind(h, tok, before) ==
    LET hits == {p \in 0 .. before - 1 : h[p + 1] = tok}
    IN  IF hits = {} THEN -1 ELSE Max(hits)

Marker(section_id) ==
    CASE section_id = "a" -> "id=a"
      [] section_id = "b" -> "id=b"
      [] OTHER -> "id=c"

\* lexemes whose text holds the character '>'
HasGt(tok) == tok \in {">", "</div>", "<p>"}
\* lexemes whose text ends in a word character (no \b after them before 'id')
EndsInWordChar(tok) == tok \in {"<div", "x"}

----------------------------------------------------------------------------
(* The two token patterns of the depth scans *)

\* re '<div[\s>]' matches at offset p
OpenAt(h, p) ==
    /\ p + 2 <= Len(h)
    /\ h[p + 1] = "<div"
    /\ h[p + 2] \in {" ", ">"}

CloseAt_AnyTag(h, p) == p + 1 <= Len(h) /\ h[p + 1] \in {"</div>", "<p>"}
\* re '</div>' matches at offset p
CloseAt(h, p) == p + 1 <= Len(h) /\ h[p + 1] = "</div>"

----------------------------------------------------------------------------
(* merge_responsive.phase2_remove_mobile_sections: the depth scan over      *)
(* div_tag_re.finditer(html, div_start)                                     *)

\* 'if depth == 0' after 'depth -= 1': the close token that ends the scan
Phase2StopsAt_Naive(depth) == TRUE
Phase2StopsAt(depth) == depth = 0

\* the matches of div_tag_re at or after offset from, leftmost first
DivTagStarts(h, from) == {p \in from .. Len(h) - 1 : OpenAt(h, p) \/ CloseAt(h, p)}

RECURSIVE Phase2Scan_EofCloses(_, _, _)
Phase2Scan_EofCloses(h, from, depth) ==
    IF DivTagStarts(h, from) = {} THEN Len(h)
    ELSE LET p == Min(DivTagStarts(h, from))
         IN  IF CloseAt(h, p)
             THEN IF Phase2StopsAt(depth - 1) THEN p + 1
                  ELSE Phase2Scan_EofCloses(h, p + 1, depth - 1)
             ELSE Phase2Scan_EofCloses(h, p + 2, depth + 1)

RECURSIVE Phase2Scan(_, _, _)
\* end_pos of the loop 'for m in div_tag_re.finditer(html, div_start)', -1 when
\* the iterator is exhausted without a break
Phase2Scan(h, from, depth) ==
    IF DivTagStarts(h, from) = {} THEN -1
    ELSE LET p == Min(DivTagStarts(h, from))
         IN  IF CloseAt(h, p)
             THEN IF Phase2StopsAt(depth - 1) THEN p + 1
                  ELSE Phase2Scan(h, p + 1, depth - 1)
             ELSE Phase2Scan(h, p + 2, depth + 1)

\* 'html = html[:div_start] + html[end_pos:]' (remove_section: 'html[:start] + html[end:]')
Excise_EatPrevious(h, s, e) ==
    Slice(h, 0, IF s > 0 THEN s - 1 ELSE 0) \o Slice(h, e, Len(h))
Excise_KeepClose(h, s, e) == Slice(h, 0, s) \o Slice(h, e - 1, Len(h))
Excise(h, s, e) == Slice(h, 0, s) \o Slice(h, e, Len(h))

\* one iteration of 'for section_id in MOBILE_SECTIONS_TO_REMOVE': what it
\* prints, the span it found and the value of html after it
Phase2Step(h, section_id) ==
    LET start_idx == Find(h, Marker(section_id), 0)
        div_start == RFind(h, "<div", start_idx)
        end_pos   == Phase2Scan(h, div_start, 0)
    IN  IF start_idx = -1
        THEN [id |-> section_id, outcome |-> "not_found", start |-> -1, end |-> -1, html |-> h]
        ELSE IF div_start = -1
        THEN [id |-> section_id, outcome |-> "no_open_div", start |-> -1, end |-> -1, html |-> h]
        ELSE IF end_pos = -1
        THEN [id |-> section_id, outcome |-> "no_close", start |-> div_start, end |-> -1, html |-> h]
        ELSE [id |-> section_id, outcome |-> "removed", start |-> div_start, end |-> end_pos,
              html |-> Excise(h, div_start, end_pos)]

----------------------------------------------------------------------------
(* create_nbs.remove_section                                                *)

\* re.search(r'<div[^>]*\bid="ID"[^>]*>', html).start(), or -1 for no match:
\* the leftmost '<div' from which only '>'-free text leads to the marker, the
\* marker preceded by a non-word character and followed by '>'-free text up
\* to a '>'
NbsSearch(h, section_id) ==
    LET matches(s) ==
            /\ h[s + 1] = "<div"
            /\ \E m \in s + 1 .. Len(h) - 1 :
                  /\ h[m + 1] = Marker(section_id)
                  /\ \A q \in s + 1 .. m - 1 : ~HasGt(h[q + 1])
                  /\ ~EndsInWordChar(h[m])
                  /\ \E e \in m + 1 .. Len(h) - 1 :
                        /\ HasGt(h[e + 1])
                        /\ \A q \in m + 1 .. e - 1 : ~HasGt(h[q + 1])
        hits == {s \in 0 .. Len(h) - 1 : matches(s)}
    IN  IF hits = {} THEN -1 ELSE Min(hits)

\* 'if depth == 0' after 'depth -= 1' in remove_section
NbsStopsAt_Naive(depth) == TRUE
NbsStopsAt_NotPositive(depth) == depth <= 0
NbsStopsAt(depth) == depth = 0

RECURSIVE NbsScan(_, _, _)
\* the loop 'while pos < len(html)': the end offset, or -1 when pos runs off
\* the end of the document
NbsScan(h, pos, depth) ==
    IF pos >= Len(h) THEN -1
    ELSE IF OpenAt(h, pos) THEN NbsScan(h, pos + 2, depth + 1)
    ELSE IF CloseAt(h, pos)
         THEN IF NbsStopsAt(depth - 1) THEN pos + 1
              ELSE NbsScan(h, pos + 1, depth - 1)
    ELSE NbsScan(h, pos + 1, depth)

\* remove_section(html, section_id): what it prints, the span and the
\* returned document
NbsStep(h, section_id) ==
    LET start == NbsSearch(h, section_id)
        end   == NbsScan(h, start, 0)
    IN  IF start = -1
        THEN [id |-> section_id, outcome |-> "not_found", start |-> -1, end |-> -1, html |-> h]
        ELSE IF end = -1
        THEN [id |-> section_id, outcome |-> "no_close", start |-> start, end |-> -1, html |-> h]
        ELSE [id |-> section_id, outcome |-> "removed", start |-> start, end |-> end,
              html |-> Excise(h, start, end)]

----------------------------------------------------------------------------
(* The documents the scripts are run on *)

\* the tags a document is made of, each lexically complete
PieceDA  == <<"<div", " ", "id=a", ">">>        \* <div id="a">
PieceDB  == <<"<div", " ", "id=b", ">">>        \* <div id="b">
PieceDC  == <<"<div", " ", "id=c", ">">>        \* <div id="c">
PieceD   == <<"<div", ">">>                     \* <div>
PieceE   == <<"</div>">>                        \* </div>
PieceP   == <<"<p>">>                           \* a tag of another kind
PieceDXA == <<"<div", "x", " ", "id=a", ">">>   \* <divx id="a">, another kind
PieceMA  == <<" ", "id=a">>                     \* the marker text outside a div

Pieces == <<PieceDA, PieceDB, PieceD, PieceE, PieceP, PieceDXA, PieceMA>>

RECURSIVE Flat(_)
Flat(ps) == IF ps = <<>> THEN <<>> ELSE Pieces[Head(ps)] \o Flat(Tail(ps))

RECURSIVE Rep(_, _)
Rep(piece, n) == IF n <= 0 THEN <<>> ELSE piece \o Rep(piece, n - 1)

\* n nested divs, the k-th from outside carrying id="a"
NestedDoc(n, k) ==
    Rep(PieceD, k - 1) \o PieceDA \o Rep(PieceD, n - k) \o PieceP \o Rep(PieceE, n)

\* <div id="a"><div id="b"></div></div><div id="c"></div>
ScenarioDoc == PieceDA \o PieceDB \o PieceE \o PieceE \o PieceDC \o PieceE

GeneratedDocs ==
    {Flat(ps) : ps \in UNION {[1 .. n -> 1 .. Len(Pieces)] : n \in 0 .. MaxPieces}}

Docs == GeneratedDocs \cup {ScenarioDoc}
            \cup {NestedDoc(n, k) : <<n, k>> \in {x \in (1 .. MaxNest) \X (1 .. MaxNest) : x[2] <= x[1]}}

\* the order in which the loop visits the section ids
Queues == {<<"a", "b">>, <<"b", "a">>}

----------------------------------------------------------------------------
(* The section-removal loops as a state machine *)

Init ==
    /\ script \in {"merge", "nbs"}
    /\ pc = "loop"
    /\ html0 \in Docs
    /\ html = html0
    /\ prevHtml = html0
    /\ queue \in Queues
    /\ report = <<>>
    /\ NoCss
    /\ files = NoFiles /\ runs = 0

\* one iteration of the loop of phase2_remove_mobile_sections
Phase2Iter ==
    /\ script = "merge" /\ pc = "loop" /\ queue # <<>>
    /\ LET r == Phase2Step(html, Head(queue))
       IN  /\ html' = r.html
           /\ report' = Append(report, [id |-> r.id, outcome |-> r.outcome,
                                        start |-> r.start, end |-> r.end])
    /\ prevHtml' = html
    /\ queue' = Tail(queue)
    /\ UNCHANGED <<script, pc, html0, cssVars, files, runs>>

\* 'return html' at the end of phase2_remove_mobile_sections
Phase2Return ==
    /\ script = "merge" /\ pc = "loop" /\ queue = <<>>
    /\ pc' = "done"
    /\ UNCHANGED <<script, html0, html, prevHtml, queue, report, cssVars, files, runs>>

\* one iteration of 'for section_id in [...]: html = remove_section(html, section_id)'
NbsIter ==
    /\ script = "nbs" /\ pc = "loop" /\ queue # <<>>
    /\ LET r == NbsStep(html, Head(queue))
       IN  /\ html' = r.html
           /\ report' = Append(report, [id |-> r.id, outcome |-> r.outcome,
                                        start |-> r.start, end |-> r.end])
    /\ prevHtml' = html
    /\ queue' = Tail(queue)
    /\ UNCHANGED <<script, pc, html0, cssVars, files, runs>>

\* the loop of create_nbs.main is over
NbsLoopEnd ==
    /\ script = "nbs" /\ pc = "loop" /\ queue = <<>>
    /\ pc' = "done"
    /\ UNCHANGED <<script, html0, html, prevHtml, queue, report, cssVars, files, runs>>

Next == Phase2Iter \/ Phase2Return \/ NbsIter \/ NbsLoopEnd

Spec == Init /\ [][Next]_vars

----------------------------------------------------------------------------
(* fix_sticky_cta.py and fix_sticky_cta_v2.py: relocation of the sticky CTA  *)
(*                                                                         *)
(* Lexemes: "S" the sticky div's opening tag (sticky_start_marker,          *)
(* sticky_open), "T" and "U" the texts 'top_right_sec big_cta' and          *)
(* 'secure_checkout_img', "L" '<div id="stickyLength"', "I1" "I2" the two   *)
(* tags of inner_marker, "K" container_marker, "KA" container_marker_alt    *)
(* in a tag that is not container_marker, ">" a tag end, "F" first_content, *)
(* "nl" a newline, "CSS" css_target, "ADD" css_addition.                    *)

MaxStickyPieces == 5

InnerMarker == <<"I1", "I2">>

\* str.find(pat, from) for a pattern of several lexemes
FindSeq(h, pat, from) ==
    LET hits == {p \in from .. Len(h) - Len(pat) : Slice(h, p, p + Len(pat)) = pat}
    IN  IF hits = {} THEN -1 ELSE Min(hits)

RECURSIVE RStrip(_)
\* str.rstrip()
RStrip(t) ==
    IF t # <<>> /\ t[Len(t)] = "nl" THEN RStrip(SubSeq(t, 1, Len(t) - 1)) ELSE t

\* lexemes of the sticky documents whose text holds '>', each as its last character
StickyHasGt(tok) == tok \in {"S", "I1", "I2", "K", ">"}

\* fix_sticky_cta.py: 'insert_pos = html_modified.find(inner_marker)'
V1InsertPos_Stale(html_read, html_modified) == FindSeq(html_read, InnerMarker, 0)
V1InsertPos(html_read, html_modified) == FindSeq(html_modified, InnerMarker, 0)

\* fix_sticky_cta.py, the whole script on the file content h
StickyV1Run(h) ==
    LET start_idx     == Find(h, "S", 0)
        stickylen_idx == Find(h, "L", start_idx)
        sticky_cta    == RStrip(Slice(h, start_idx, stickylen_idx))
        html_modified == Slice(h, 0, start_idx) \o <<"nl">> \o Slice(h, stickylen_idx, Len(h))
        found         == V1InsertPos(h, html_modified)
        insert_pos    == found + Len(InnerMarker)
        failed        == [outcome |-> "exit1", html |-> h, modified |-> h, cta |-> <<>>,
                          start |-> -1, end |-> -1, insert_pos |-> -1]
    IN  IF start_idx = -1 THEN failed
        ELSE IF stickylen_idx = -1 THEN failed
        ELSE IF found = -1 THEN failed
        ELSE [outcome |-> "written",
              html |-> Slice(html_modified, 0, insert_pos) \o sticky_cta
                          \o Slice(html_modified, insert_pos, Len(html_modified)),
              modified |-> html_modified, cta |-> sticky_cta,
              start |-> start_idx, end |-> stickylen_idx, insert_pos |-> insert_pos]

\* fix_sticky_cta_v2.py: 'html[:insert_pos] + "\n" + sticky_cta_html + "\n" + html[insert_pos:]'
V2Insert_Before(h, insert_pos, cta) ==
    Slice(h, 0, insert_pos - 1) \o <<"nl">> \o cta \o <<"nl">> \o Slice(h, insert_pos - 1, Len(h))
V2Insert(h, insert_pos, cta) ==
    Slice(h, 0, insert_pos) \o <<"nl">> \o cta \o <<"nl">> \o Slice(h, insert_pos, Len(h))

\* fix_sticky_cta_v2.py: html.replace(css_target, css_replacement, 1)
V2AddCss(h) ==
    LET c == Find(h, "CSS", 0)
    IN  Slice(h, 0, c + 1) \o <<"ADD">> \o Slice(h, c + 1, Len(h))

\* fix_sticky_cta_v2.py, the whole script on the file content h
StickyV2Run(h) ==
    LET inner_pos      == FindSeq(h, InnerMarker, 0)
        cta_start      == inner_pos + Len(InnerMarker)
        cta_end_search == Find(h, "F", cta_start)
        sticky_cta_html == Slice(h, cta_start, cta_end_search)
        removed        == Slice(h, 0, cta_start) \o Slice(h, cta_end_search, Len(h))
        container_pos  == Find(removed, "K", 0)
        alt_pos        == Find(removed, "KA", 0)
        gts            == {p \in alt_pos .. Len(removed) - 1 : StickyHasGt(removed[p + 1])}
        tag_close      == IF gts = {} THEN -1 ELSE Min(gts)
        insert_pos     == IF container_pos # -1 THEN container_pos + 1 ELSE tag_close + 1
        stickylen_pos  == Find(removed, "L", insert_pos)
        inserted       == V2Insert(removed, insert_pos, sticky_cta_html)
        exit1          == [outcome |-> "exit1", html |-> h, modified |-> h, cta |-> <<>>,
                           start |-> -1, end |-> -1, insert_pos |-> -1]
    IN  IF inner_pos = -1 THEN exit1
        ELSE IF ~(cta_start + 1 <= Len(h) /\ h[cta_start + 1] = "S") THEN exit1
        ELSE IF cta_end_search = -1 THEN exit1
        ELSE IF "T" \notin Range(sticky_cta_html) \/ "U" \notin Range(sticky_cta_html)
        THEN [exit1 EXCEPT !.outcome = "AssertionError"]
        ELSE IF container_pos = -1 /\ alt_pos = -1 THEN exit1
        ELSE IF stickylen_pos = -1 THEN exit1
        ELSE IF Find(inserted, "CSS", 0) = -1 THEN exit1
        ELSE [outcome |-> "written", html |-> V2AddCss(inserted),
              modified |-> removed, cta |-> sticky_cta_html,
              start |-> cta_start, end |-> cta_end_search, insert_pos |-> insert_pos]

StickyPieces ==
    << <<"S", "T", "U">>, <<"S">>, <<"L">>, InnerMarker, <<"K">>, <<"KA">>, <<">">>,
       <<"F">>, <<"nl">> >>

RECURSIVE StickyFlat(_)
StickyFlat(ps) ==
    IF ps = <<>> THEN <<>> ELSE StickyPieces[Head(ps)] \o StickyFlat(Tail(ps))

\* the page: the style sheet with or without css_target, then the body
StickyDocs ==
    {pre \o StickyFlat(ps) :
        pre \in {<<>>, <<"CSS">>},
        ps \in UNION {[1 .. n -> 1 .. Len(StickyPieces)] : n \in 0 .. MaxStickyPieces}}

InitSticky ==
    /\ script \in {"sticky_v1", "sticky_v2"}
    /\ pc = "start"
    /\ html0 \in StickyDocs
    /\ html = html0
    /\ prevHtml = html0
    /\ queue = <<>>
    /\ report = <<>>
    /\ NoCss
    /\ files = NoFiles /\ runs = 0

\* a run of fix_sticky_cta.py: html is the content of index.html
StickyV1 ==
    /\ script = "sticky_v1" /\ pc = "start"
    /\ LET r == StickyV1Run(html)
       IN  /\ pc' = r.outcome
           /\ html' = r.html
           /\ prevHtml' = r.modified
           /\ report' = <<[cta |-> r.cta, start |-> r.start, end |-> r.end,
                           insert_pos |-> r.insert_pos]>>
    /\ UNCHANGED <<script, html0, queue, cssVars, files, runs>>

\* a run of fix_sticky_cta_v2.py
StickyV2 ==
    /\ script = "sticky_v2" /\ pc = "start"
    /\ LET r == StickyV2Run(html)
       IN  /\ pc' = r.outcome
           /\ html' = r.html
           /\ prevHtml' = r.modified
           /\ report' = <<[cta |-> r.cta, start |-> r.start, end |-> r.end,
                           insert_pos |-> r.insert_pos]>>
    /\ UNCHANGED <<script, html0, queue, cssVars, files, runs>>

NextSticky == StickyV1 \/ StickyV2

SpecSticky == InitSticky /\ [][NextSticky]_vars

----------------------------------------------------------------------------
(* merge_responsive._filter_mobile_rules: the stylesheet tokenizer and the   *)
(* dead-rule filter                                                          *)
(*                                                                           *)
(* Lexemes: "ws" a whitespace character, "/*" and "*/" the comment           *)
(* delimiters, "{" and "}", "@", ":root", "s" text without a component id,   *)
(* "mob" text holding the id of a removed mobile section, "desk" text        *)
(* holding another component id.  Lengths are counted in lexemes.            *)

MaxCssPieces == 4

\* mobile_id_set
MobileIdSet == {"mob1"}

\* opening braces minus closing braces among the lexemes at offsets a .. b-1
BraceDepth(t, a, b) ==
    Cardinality({p \in a .. b - 1 : t[p + 1] = "{"})
        - Cardinality({p \in a .. b - 1 : t[p + 1] = "}"})

\* _extract_ids_from_css(css_text)
ExtractIds(css_text) ==
    {IF tok = "mob" THEN "mob1" ELSE "desk1" : tok \in Range(css_text) \cap {"mob", "desk"}}

RECURSIVE BraceEnd_FirstClose(_, _, _)
BraceEnd_FirstClose(t, j, depth) ==
    IF j < Len(t) /\ depth > 0
    THEN BraceEnd_FirstClose(t, j + 1, IF t[j + 1] = "}" THEN 0 ELSE depth)
    ELSE j
RECURSIVE BraceEnd(_, _, _)
\* 'while j < length and depth > 0': the value of j after the loop
BraceEnd(t, j, depth) ==
    IF j < Len(t) /\ depth > 0
    THEN BraceEnd(t, j + 1,
                  IF t[j + 1] = "{" THEN depth + 1
                  ELSE IF t[j + 1] = "}" THEN depth - 1 ELSE depth)
    ELSE j

RECURSIVE LeadingLoop(_, _, _)
\* the first loop 'while i < length' (leading whitespace and comments):
\* the value of i and of chunks after it
LeadingLoop(t, i, cs) ==
    IF i >= Len(t) THEN [i |-> i, chunks |-> cs]
    ELSE IF t[i + 1] = "ws" THEN LeadingLoop(t, i + 1, cs)
    ELSE IF t[i + 1] = "/*"
         THEN LET end == Find(t, "*/", i)
              IN  IF end = -1 THEN [i |-> i, chunks |-> cs]
                  ELSE LeadingLoop(t, end + 1,
                                   Append(cs, [kind |-> "comment", text |-> Slice(t, i, end + 1)]))
    ELSE [i |-> i, chunks |-> cs]

\* the offset of the first non-whitespace lexeme at or after i, Len(t) if none
SkipWs(t, i) ==
    LET rest == {p \in i .. Len(t) - 1 : t[p + 1] # "ws"}
    IN  IF rest = {} THEN Len(t) ELSE Min(rest)

\* the kind the second loop gives the construct whose first lexeme is tok
KindOf_RootAsRule(tok) == IF tok = "@" THEN "at-rule" ELSE "rule"
KindOf(tok) ==
    IF tok = "@" THEN "at-rule" ELSE IF tok = ":root" THEN "root" ELSE "rule"

RECURSIVE RuleLoop_DropUnterminated(_, _, _)
RuleLoop_DropUnterminated(t, start, cs) ==
    IF start >= Len(t) THEN cs
    ELSE LET i == SkipWs(t, start)
             brace_pos == Find(t, "{", i)
             j == BraceEnd(t, brace_pos + 1, 1)
             opens == Cardinality({p \in brace_pos .. j - 1 : t[p + 1] = "{"})
             closes == Cardinality({p \in brace_pos .. j - 1 : t[p + 1] = "}"})
         IN  IF i >= Len(t) THEN cs
             ELSE IF brace_pos = -1
             THEN Append(cs, [kind |-> "other", text |-> Slice(t, start, Len(t))])
             ELSE IF opens > closes THEN cs
             ELSE RuleLoop_DropUnterminated(t, j,
                      Append(cs, [kind |-> KindOf(t[i + 1]), text |-> Slice(t, start, j)]))

RECURSIVE RuleLoop(_, _, _)
\* the second loop 'while i < length': the list chunks after it
RuleLoop(t, start, cs) ==
    IF start >= Len(t) THEN cs
    ELSE LET i == SkipWs(t, start)
             brace_pos == Find(t, "{", i)
             j == BraceEnd(t, brace_pos + 1, 1)
         IN  IF i >= Len(t) THEN cs
             ELSE IF brace_pos = -1
             THEN Append(cs, [kind |-> "other", text |-> Slice(t, start, Len(t))])
             ELSE RuleLoop(t, j, Append(cs, [kind |-> KindOf(t[i + 1]), text |-> Slice(t, start, j)]))

\* the list chunks of _filter_mobile_rules(block_text, ...)
Tokenize(t) ==
    LET lead == LeadingLoop(t, 0, <<>>)
    IN  RuleLoop(t, lead.i, lead.chunks)

Kept_IdsOnly(chunk) ==
    \/ ExtractIds(chunk.text) = {}
    \/ ~(ExtractIds(chunk.text) \subseteq MobileIdSet)

Kept_AnyMobile(chunk) ==
    \/ chunk.kind \in {"comment", "root", "other"}
    \/ ExtractIds(chunk.text) \cap MobileIdSet = {}

\* 'if chunk_type in (...) / if not ids_in_chunk / issubset': the chunk is kept
Kept(chunk) ==
    \/ chunk.kind \in {"comment", "root", "other"}
    \/ ExtractIds(chunk.text) = {}
    \/ ~(ExtractIds(chunk.text) \subseteq MobileIdSet)

RECURSIVE JoinKept_Reversed(_)
JoinKept_Reversed(cs) ==
    IF cs = <<>> THEN <<>>
    ELSE JoinKept_Reversed(Tail(cs)) \o (IF Kept(Head(cs)) THEN Head(cs).text ELSE <<>>)

RECURSIVE RemoveInner(_, _)
\* text from offset p on, without the rules '.mob{}' that stand at depth 1
RemoveInner(text, p) ==
    IF p >= Len(text) THEN <<>>
    ELSE IF Slice(text, p, p + 3) = <<"mob", "{", "}">> /\ BraceDepth(text, 0, p) = 1
         THEN RemoveInner(text, p + 3)
         ELSE <<text[p + 1]>> \o RemoveInner(text, p + 1)

RECURSIVE JoinKept_InnerFiltered(_)
JoinKept_InnerFiltered(cs) ==
    IF cs = <<>> THEN <<>>
    ELSE (IF ~Kept(Head(cs)) THEN <<>>
          ELSE IF Head(cs).kind = "at-rule" THEN RemoveInner(Head(cs).text, 0)
          ELSE Head(cs).text) \o JoinKept_InnerFiltered(Tail(cs))

RECURSIVE JoinKept(_)
\* ''.join(kept)
JoinKept(cs) ==
    IF cs = <<>> THEN <<>>
    ELSE (IF Kept(Head(cs)) THEN Head(cs).text ELSE <<>>) \o JoinKept(Tail(cs))

RECURSIVE RemovedBytes_Chunks(_)
RemovedBytes_Chunks(cs) ==
    IF cs = <<>> THEN 0
    ELSE (IF Kept(Head(cs)) THEN 0 ELSE 1) + RemovedBytes_Chunks(Tail(cs))

RECURSIVE RemovedBytes(_)
\* removed_bytes
RemovedBytes(cs) ==
    IF cs = <<>> THEN 0
    ELSE (IF Kept(Head(cs)) THEN 0 ELSE Len(Head(cs).text)) + RemovedBytes(Tail(cs))

CssPieces ==
    << <<"ws">>, <<"/*", "s", "*/">>, <<"/*", "s">>, <<"s", "{", "}">>, <<"mob", "{", "}">>,
       <<"desk", "{", "}">>, <<":root", "{", "}">>, <<":root">>, <<"@", "{">>, <<"@">>,
       <<"}">>, <<"s">>, <<"/*", "mob", "*/">>, <<"mob", "desk", "{", "}">> >>

RECURSIVE CssFlat(_)
CssFlat(ps) == IF ps = <<>> THEN <<>> ELSE CssPieces[Head(ps)] \o CssFlat(Tail(ps))

CssTexts ==
    {CssFlat(ps) : ps \in UNION {[1 .. n -> 1 .. Len(CssPieces)] : n \in 0 .. MaxCssPieces}}

InitCss ==
    /\ script = "filter"
    /\ pc = "call"
    /\ html0 = <<>> /\ html = <<>> /\ prevHtml = <<>> /\ queue = <<>> /\ report = <<>>
    /\ block_text \in CssTexts
    /\ chunks = <<>>
    /\ filtered = <<>>
    /\ removed_bytes = 0
    /\ files = NoFiles /\ runs = 0

\* the call _filter_mobile_rules(block_text, mobile_id_set)
FilterMobileRules ==
    /\ script = "filter" /\ pc = "call"
    /\ pc' = "returned"
    /\ chunks' = Tokenize(block_text)
    /\ filtered' = JoinKept(Tokenize(block_text))
    /\ removed_bytes' = RemovedBytes(Tokenize(block_text))
    /\ UNCHANGED <<script, html0, html, prevHtml, queue, report, block_text, files, runs>>

NextCss == FilterMobileRules

SpecCss == InitCss /\ [][NextCss]_vars

----------------------------------------------------------------------------
(* merge_responsive.phase4_remove_dead_css: the style blocks of the head     *)
(*                                                                           *)
(* The stylesheet lexemes above, with "ws" the newline character, and:       *)
(*   "mk"               the text ' ---- Section styles ----- ' of a marker   *)
(*   "</style></head>"  the end of the head                                  *)
(*   "*"                what is left of "/*" without its first character     *)
(*   "cut"              what is left of a longer lexeme without its first    *)
(*                      character                                            *)

MaxDeadCssPieces == 5

\* a match of style_marker
StyleMarker == <<"/*", "mk", "*/">>

\* markers = list(style_marker.finditer(head_content)): their start offsets
MarkerStarts(head) == {p \in 0 .. Len(head) - 3 : Slice(head, p, p + 3) = StyleMarker}

\* block_end of the block that starts at offset p
BlockEnd(head, p) ==
    LET later == {q \in MarkerStarts(head) : q > p}
    IN  IF later = {} THEN Len(head) ELSE Min(later)

\* what the first loop appends to changes for the block at offset p:
\* "remove" for (start, end, None), "filter" for (start, end, filtered),
\* "skip" for nothing
BlockChange(head, p) ==
    LET block_text_ == Slice(head, p, BlockEnd(head, p))
        ids_in_block == ExtractIds(block_text_)
    IN  IF ids_in_block \cap MobileIdSet = {} THEN "skip"
        ELSE IF ids_in_block \ MobileIdSet = {} THEN "remove"
        ELSE IF RemovedBytes(Tokenize(block_text_)) > 0 THEN "filter"
        ELSE "skip"

\* text[1:] for a text given in lexemes
ChopChar(text) ==
    IF text = <<>> THEN <<>>
    ELSE IF text[1] = "/*" THEN <<"*">> \o Tail(text)
    ELSE IF text[1] \in {"*", "ws", "{", "}", "@"} THEN Tail(text)
    ELSE <<"cut">> \o Tail(text)

RECURSIVE ApplyChanges(_, _, _, _)
\* 'for start, end, replacement in reversed(changes)' for the blocks that
\* start at the offsets ms: head_content is head[:keep] + tail when the loop
\* comes to them, and 'after' is head_content[end:]
ApplyChanges(head, ms, keep, tail) ==
    IF ms = {} THEN Slice(head, 0, keep) \o tail
    ELSE LET start == Max(ms)
             end == BlockEnd(head, start)
             actual_start == IF start > 0 /\ head[start] = "ws" THEN start - 1 ELSE start
             after == IF keep >= end THEN Slice(head, end, keep) \o tail ELSE ChopChar(tail)
         IN  IF BlockChange(head, start) = "skip"
             THEN ApplyChanges(head, ms \ {start}, keep, tail)
             ELSE IF BlockChange(head, start) = "remove"
             THEN ApplyChanges(head, ms \ {start}, actual_start, after)
             ELSE ApplyChanges(head, ms \ {start}, start,
                               JoinKept(Tokenize(Slice(head, start, end))) \o after)

\* phase4_remove_dead_css(html)
Phase4RemoveDeadCss(h) ==
    LET head_end == Find(h, "</style></head>", 0)
        head_content == Slice(h, 0, head_end)
    IN  IF head_end = -1 THEN h
        ELSE ApplyChanges(head_content, MarkerStarts(head_content), head_end, <<>>)
                \o Slice(h, head_end, Len(h))

DeadCssPieces ==
    << StyleMarker \o <<"mob", "{", "}", "desk", "{", "}">>, StyleMarker \o <<"mob", "{", "}">>,
       StyleMarker \o <<"desk", "{", "}">>, StyleMarker \o <<"mob", "desk", "{", "}">>, StyleMarker,
       <<"ws">>, <<"s", "{", "}">>, <<"</style></head>">> >>

RECURSIVE DeadCssFlat(_)
DeadCssFlat(ps) == IF ps = <<>> THEN <<>> ELSE DeadCssPieces[Head(ps)] \o DeadCssFlat(Tail(ps))

DeadCssDocs ==
    {DeadCssFlat(ps) : ps \in UNION {[1 .. n -> 1 .. Len(DeadCssPieces)] : n \in 0 .. MaxDeadCssPieces}}

InitDeadCss ==
    /\ script = "phase4"
    /\ pc = "call"
    /\ html0 \in DeadCssDocs
    /\ html = html0
    /\ prevHtml = html0
    /\ queue = <<>>
    /\ report = <<>>
    /\ NoCss
    /\ files = NoFiles /\ runs = 0

\* the call html = phase4_remove_dead_css(html)
DeadCssCall ==
    /\ script = "phase4" /\ pc = "call"
    /\ pc' = "returned"
    /\ html' = Phase4RemoveDeadCss(html)
    /\ prevHtml' = html
    /\ UNCHANGED <<script, html0, queue, report, cssVars, files, runs>>

NextDeadCss == DeadCssCall

SpecDeadCss == InitDeadCss /\ [][NextDeadCss]_vars

----------------------------------------------------------------------------
(* extract_and_clean.clean_html, step 19: the duplicate Google Fonts links   *)
(*                                                                           *)
(* Pieces of text: "LA" and "LB" the two halves '<link rel="style' and       *)
(* 'sheet" href="css/google-fonts.css"' of font_link, ">" the character '>', *)
(* "t" other text.  html0 is the value of html when step 19 begins.          *)

MaxFontLinkPieces == 4
MaxFontLinkLen == 12

\* font_link
FontLink == <<"LA", "LB">>

FontLinkPieces == << FontLink, <<">">>, <<"t">>, <<"LA">>, <<"LB">> >>

RECURSIVE FontLinkFlat(_)
FontLinkFlat(ps) == IF ps = <<>> THEN <<>> ELSE FontLinkPieces[Head(ps)] \o FontLinkFlat(Tail(ps))

FontLinkDocs ==
    {FontLinkFlat(ps) : ps \in UNION {[1 .. n -> 1 .. Len(FontLinkPieces)] : n \in 0 .. MaxFontLinkPieces}}

InitFontLink ==
    /\ script = "clean_html"
    /\ pc = "step19"
    /\ html0 \in FontLinkDocs
    /\ html = html0
    /\ prevHtml = html0
    /\ queue = <<>>
    /\ report = <<>>
    /\ NoCss
    /\ files = NoFiles /\ runs = 0

\* first_idx = html.find(font_link); if first_idx >= 0: search_from = ...
FontLinkFirst ==
    /\ script = "clean_html" /\ pc = "step19"
    /\ LET first_idx == FindSeq(html, FontLink, 0)
       IN  IF first_idx >= 0
           THEN /\ pc' = "loop"
                /\ report' = <<[first_idx |-> first_idx, search_from |-> first_idx + Len(FontLink)]>>
           ELSE /\ pc' = "done"
                /\ report' = report
    /\ UNCHANGED <<script, html0, html, prevHtml, queue, cssVars, files, runs>>

\* end_idx = html.find(">", next_idx) + 1
EndIdx(h, next_idx) == Find(h, ">", next_idx) + 1

\* one pass of 'while True'
FontLinkIter ==
    /\ script = "clean_html" /\ pc = "loop"
    /\ Len(html) <= MaxFontLinkLen
    /\ LET next_idx == FindSeq(html, FontLink, report[1].search_from)
       IN  IF next_idx < 0
           THEN /\ pc' = "done"
                /\ UNCHANGED <<html, prevHtml>>
           ELSE /\ pc' = "loop"
                /\ html' = Slice(html, 0, next_idx) \o Slice(html, EndIdx(html, next_idx), Len(html))
                /\ prevHtml' = html
    /\ UNCHANGED <<script, html0, queue, report, cssVars, files, runs>>

NextFontLink == FontLinkFirst \/ FontLinkIter

SpecFontLink == InitFontLink /\ [][NextFontLink]_vars

\* the interpreter goes on with the loop as long as it can
SpecFontLinkFair == SpecFontLink /\ WF_vars(NextFontLink)

----------------------------------------------------------------------------
(* Vocabulary of the properties *)

OpenCount(h, s, e) == Cardinality({p \in s .. e - 1 : OpenAt(h, p)})
CloseCount(h, s, e) == Cardinality({p \in s .. e - 1 : CloseAt(h, p)})

\* the offsets just after a close token at which the depth counted from s is 0
ZeroCrossings(h, s) ==
    {e \in s + 1 .. Len(h) :
        CloseAt(h, e - 1) /\ OpenCount(h, s, e) = CloseCount(h, s, e)}

DivBalanced(h) == OpenCount(h, 0, Len(h)) = CloseCount(h, 0, Len(h))

\* the scan of the running script
ScriptScan(h, s) == IF script = "merge" THEN Phase2Scan(h, s, 0) ELSE NbsScan(h, s, 0)
ScriptStep(sc, h, id) == IF sc = "merge" THEN Phase2Step(h, id) ELSE NbsStep(h, id)

\* the document with the tags of other kinds deleted
RECURSIVE StripOther(_)
StripOther(h) ==
    IF h = <<>> THEN <<>>
    ELSE IF Head(h) = "<p>" THEN StripOther(Tail(h))
    ELSE <<Head(h)>> \o StripOther(Tail(h))

OtherCount(h, s, e) == Cardinality({p \in s .. e - 1 : h[p + 1] = "<p>"})

----------------------------------------------------------------------------
(* C1: in a document of n nested divs whose k-th div (from outside) carries *)
(* the marker, the scan started at that div ends just after that div's own  *)
(* close, the (n-k+1)-th close token: the whole document for k = 1, never   *)
(* the outer element for k > 1.  In every document the end found is the     *)
(* first close token at which opens and closes counted from the start are   *)
(* equal.                                                                   *)
C1_NestedScan ==
    /\ \A n \in 1 .. MaxNest : \A k \in 1 .. n :
          (html0 = NestedDoc(n, k) /\ report # <<>> /\ report[1].id = "a")
             => /\ report[1].outcome = "removed"
                /\ report[1].start = 2 * (k - 1)
                /\ report[1].end = 3 * n - k + 4
    /\ (report # <<>> /\ Last(report).outcome = "removed")
          => /\ ZeroCrossings(prevHtml, Last(report).start) # {}
             /\ Last(report).end = Min(ZeroCrossings(prevHtml, Last(report).start))

C1_Witness ==
    /\ MaxNest >= 3
    /\ html0 = NestedDoc(3, 2)
    /\ report # <<>>
    /\ report[1] = [id |-> "a", outcome |-> "removed", start |-> 2, end |-> 11]

(* C2: on <div id="a"><div id="b"></div></div><div id="c"></div> the element *)
(* of id="a" is the span [0, 10) through the outer close, and removing it    *)
(* leaves exactly <div id="c"></div>.                                        *)
C2_Scenario ==
    (html0 = ScenarioDoc /\ report # <<>> /\ report[1].id = "a")
       => /\ report[1].outcome = "removed"
          /\ report[1].start = 0
          /\ report[1].end = Len(PieceDA \o PieceDB \o PieceE \o PieceE)
          /\ html = PieceDC \o PieceE

C2_Witness ==
    /\ html0 = ScenarioDoc
    /\ Len(report) = 1
    /\ report[1].id = "a"
    /\ html = <<"<div", " ", "id=c", ">", "</div>">>

(* C3: every removed span holds as many open tokens as close tokens, and a   *)
(* div-balanced document stays div-balanced over a removal.                  *)
C3_BalancedSpan ==
    (report # <<>> /\ Last(report).outcome = "removed")
       => /\ OpenCount(prevHtml, Last(report).start, Last(report).end)
               = CloseCount(prevHtml, Last(report).start, Last(report).end)
          /\ Len(html) = Len(prevHtml) - (Last(report).end - Last(report).start)
          /\ DivBalanced(prevHtml) => DivBalanced(html)

C3_Witness ==
    /\ report # <<>>
    /\ Last(report).outcome = "removed"
    /\ OpenCount(prevHtml, Last(report).start, Last(report).end) = 2
    /\ DivBalanced(prevHtml)
    /\ html # <<>>

(* C4: tags of another kind do not move the depth: the scan of a document    *)
(* ends where the scan of the same document without those tags ends, shifted *)
(* by the number of deleted tags before that end, and finds no end exactly   *)
(* when that scan finds none.                                                *)
C4_OtherTagsInvisible ==
    (report # <<>> /\ Last(report).start # -1)
       => LET h == prevHtml
              s == Last(report).start
              e == Last(report).end
              e2 == ScriptScan(StripOther(h), s - OtherCount(h, 0, s))
          IN  IF e = -1 THEN e2 = -1
              ELSE e2 = e - OtherCount(h, 0, e)

C4_Witness ==
    /\ report # <<>>
    /\ Last(report).outcome = "removed"
    /\ OtherCount(prevHtml, Last(report).start, Last(report).end) >= 1
    /\ OpenCount(prevHtml, Last(report).start, Last(report).end) = 2

(* C5 as stated: when the scan finds no close token that brings the depth    *)
(* back to 0, the operation fails (it does not go on and does not return     *)
(* normally) and the document is the one the operation received.  Neither    *)
(* script raises: pc never takes the value "failed".                         *)
C5_Original ==
    \A i \in 1 .. Len(report) :
        report[i].outcome = "no_close"
           => pc = "failed" /\ Len(report) = i /\ html = html0

(* C5 as amended: when no close token brings the depth back to 0 the script  *)
(* raises nothing: it prints the warning for that section and leaves the     *)
(* document as it was before that section; the loop goes on to the remaining *)
(* sections and the operation returns normally after visiting all of them.   *)
C5_WarnAndContinue ==
    /\ (report # <<>> /\ Last(report).start # -1
           /\ ZeroCrossings(prevHtml, Last(report).start) = {})
          => /\ Last(report).outcome = "no_close"
             /\ html = prevHtml
             /\ pc \in {"loop", "done"}
    /\ (report # <<>> /\ Last(report).outcome = "no_close")
          => ZeroCrossings(prevHtml, Last(report).start) = {}
    /\ pc = "done" => Len(report) = 2

C5_Witness ==
    /\ pc = "done"
    /\ Len(report) = 2
    /\ report[1].outcome = "no_close"
    /\ report[2].outcome = "removed"
    /\ html # html0

MarkerAbsent(h, mk) == mk \notin Range(h)
\* the marker occurs and no '<div' stands before its first occurrence
NoOpenBeforeFirst(h, mk) ==
    /\ mk \in Range(h)
    /\ \A p \in 1 .. Len(h) : h[p] = "<div" => \E m \in 1 .. p - 1 : h[m] = mk
\* the marker occurs and no '<div' stands before any of its occurrences
NoOpenBeforeAny(h, mk) ==
    /\ mk \in Range(h)
    /\ \A p \in 1 .. Len(h) : h[p] = "<div" => \A m \in 1 .. Len(h) : h[m] = mk => m < p

----------------------------------------------------------------------------
RECURSIVE RunLoop(_, _, _)
\* the document after the removal loop of script sc has visited the ids of q
RunLoop(sc, h, q) ==
    IF q = <<>> THEN h
    ELSE RunLoop(sc, ScriptStep(sc, h, Head(q)).html, Tail(q))

\* both elements are found in h and their spans do not overlap
DisjointAB(sc, h) ==
    LET ra == ScriptStep(sc, h, "a")
        rb == ScriptStep(sc, h, "b")
    IN  /\ ra.outcome = "removed"
        /\ rb.outcome = "removed"
        /\ (ra.end <= rb.start \/ rb.end <= ra.start)

(* C7: when the elements of the two section ids are disjoint in the document *)
(* read, the loop that visited them in one order ends with the document the  *)
(* loop visiting them in the other order ends with, and both are gone.       *)
C7_OrderIndependent ==
    (pc = "done" /\ DisjointAB(script, html0))
       => /\ html = RunLoop(script, html0, <<report[2].id, report[1].id>>)
          /\ report[1].outcome = "removed"
          /\ report[2].outcome = "removed"
          /\ Len(html) = Len(html0)
                - (ScriptStep(script, html0, "a").end - ScriptStep(script, html0, "a").start)
                - (ScriptStep(script, html0, "b").end - ScriptStep(script, html0, "b").start)

C7_Witness ==
    /\ pc = "done"
    /\ DisjointAB(script, html0)
    /\ report[1].id = "b"
    /\ Len(html) = Len(html0) - 10

----------------------------------------------------------------------------
CountTok(h, t) == Cardinality({p \in 1 .. Len(h) : h[p] = t})
CountSeq(h, pat) ==
    Cardinality({p \in 0 .. Len(h) - Len(pat) : Slice(h, p, p + Len(pat)) = pat})

RECURSIVE IsSubseq(_, _)
\* the lexemes of a occur in b in the same order
IsSubseq(a, b) ==
    IF a = <<>> THEN TRUE
    ELSE IF b = <<>> THEN FALSE
    ELSE IF Head(a) = Head(b) THEN IsSubseq(Tail(a), Tail(b))
    ELSE IsSubseq(a, Tail(b))

StickyLexemes == {"S", "T", "U", "L", "I1", "I2", "K", "KA", ">", "F", "nl", "CSS", "ADD"}

\* offset o of h is directly after the script's target marker
AfterTarget(h, o) ==
    IF script = "sticky_v1" THEN o >= 2 /\ Slice(h, o - 2, o) = InnerMarker
    ELSE o >= 1 /\ h[o] = "K"

(* C8 as stated: when the sticky div's opening tag occurs once in the page   *)
(* read, the written page holds the text the script moves (the span, in      *)
(* fix_sticky_cta without its trailing whitespace) exactly once, directly    *)
(* after the target marker                                                   *)
(* (inner_marker for fix_sticky_cta, container_marker for v2), and the text  *)
(* outside the span keeps its order.                                         *)
C8_Original ==
    (pc = "written" /\ CountTok(html0, "S") = 1)
       => /\ CountSeq(html, report[1].cta) = 1
          /\ \E o \in 0 .. Len(html) - Len(report[1].cta) :
                AfterTarget(html, o) /\ Slice(html, o, o + Len(report[1].cta)) = report[1].cta
          /\ IsSubseq(Excise(html0, report[1].start, report[1].end), html)

(* C8 as amended: the span is removed first, the insertion offset is found   *)
(* in the post-removal page and the text is put back there, so that every    *)
(* lexeme but newlines (and the added CSS) occurs as often as before and the *)
(* text outside the span keeps its order.  fix_sticky_cta moves the span     *)
(* without its trailing whitespace, directly after inner_marker, and leaves  *)
(* one newline where the span was.  fix_sticky_cta_v2 moves the span between *)
(* two inserted newlines, after container_marker or else after the first '>' *)
(* that follows container_marker_alt (offset 0 when there is none).          *)
C8_Relocated ==
    pc = "written"
       => LET r    == report[1]
              span == Slice(html0, r.start, r.end)
              mod  == prevHtml
              body == SelectSeq(html, LAMBDA x : x # "ADD")
          IN  /\ \A t \in StickyLexemes \ {"nl", "ADD"} : CountTok(html, t) = CountTok(html0, t)
              /\ IsSubseq(Excise(html0, r.start, r.end), html)
              /\ r.insert_pos \in 0 .. Len(mod)
              /\ script = "sticky_v1"
                    => /\ \E n \in 0 .. Len(span) :
                             /\ r.cta = SubSeq(span, 1, Len(span) - n)
                             /\ \A i \in Len(span) - n + 1 .. Len(span) : span[i] = "nl"
                             /\ r.cta[Len(r.cta)] # "nl"
                       /\ mod = Slice(html0, 0, r.start) \o <<"nl">> \o Slice(html0, r.end, Len(html0))
                       /\ AfterTarget(mod, r.insert_pos)
                       /\ FindSeq(mod, InnerMarker, 0) = r.insert_pos - 2
                       /\ html = Slice(mod, 0, r.insert_pos) \o r.cta
                                    \o Slice(mod, r.insert_pos, Len(mod))
              /\ script = "sticky_v2"
                    => /\ r.cta = span
                       /\ mod = Excise(html0, r.start, r.end)
                       /\ "K" \in Range(mod)
                             => AfterTarget(mod, r.insert_pos) /\ Find(mod, "K", 0) = r.insert_pos - 1
                       /\ "K" \notin Range(mod)
                             => /\ "KA" \in Range(mod)
                                /\ \/ /\ r.insert_pos >= 1
                                      /\ StickyHasGt(mod[r.insert_pos])
                                      /\ \A q \in Find(mod, "KA", 0) + 1 .. r.insert_pos - 1 :
                                            ~StickyHasGt(mod[q])
                                      /\ Find(mod, "KA", 0) < r.insert_pos
                                   \/ /\ r.insert_pos = 0
                                      /\ \A q \in Find(mod, "KA", 0) + 1 .. Len(mod) :
                                            ~StickyHasGt(mod[q])
                       /\ body = Slice(mod, 0, r.insert_pos) \o <<"nl">> \o r.cta \o <<"nl">>
                                    \o Slice(mod, r.insert_pos, Len(mod))
                       /\ CountTok(html, "ADD") = 1
                       /\ html[Find(html, "CSS", 0) + 2] = "ADD"

\* fix_sticky_cta moved a span that stood before inner_marker
C8_Witness ==
    /\ pc = "written"
    /\ script = "sticky_v1"
    /\ report[1].start < report[1].insert_pos
    /\ Len(report[1].cta) = 3
    /\ html # html0

----------------------------------------------------------------------------
RECURSIVE JoinChunks(_)
\* ''.join(text for (kind, text) in chunks)
JoinChunks(cs) == IF cs = <<>> THEN <<>> ELSE Head(cs).text \o JoinChunks(Tail(cs))

(* C9: the texts of the chunks, concatenated in order, are the input text,   *)
(* leading whitespace, whitespace between leading comments and trailing      *)
(* whitespace included.                                                      *)
C9_RoundTrip == pc = "returned" => JoinChunks(chunks) = block_text

----------------------------------------------------------------------------
\* the first non-whitespace lexeme of a text, "ws" when it has none
FirstLexeme(text) == IF SkipWs(text, 0) >= Len(text) THEN "ws" ELSE text[SkipWs(text, 0) + 1]

\* the text without its whitespace
StripWs(text) == SelectSeq(text, LAMBDA x : x # "ws")

\* the text begins, after optional whitespace, with a terminated comment
StartsWithComment(text) ==
    /\ FirstLexeme(text) = "/*"
    /\ Find(text, "*/", SkipWs(text, 0)) # -1

\* the kind the statement of C10 gives a construct
StatedKind(text) ==
    IF StartsWithComment(text) THEN "comment"
    ELSE IF "{" \notin Range(text) THEN "other"
    ELSE IF FirstLexeme(text) = "@" THEN "at-rule"
    ELSE IF FirstLexeme(text) = ":root" THEN "root"
    ELSE "rule"

\* C10 as stated: a chunk that begins with a /* ... */ comment is a 'comment'
\* chunk wherever it stands, and every other chunk has the kind of its first
\* characters.
C10_Original ==
    pc = "returned"
       => \A n \in 1 .. Len(chunks) : chunks[n].kind = StatedKind(chunks[n].text)

(* C10: comments are recognised only ahead of the first other construct.     *)
(* The 'comment' chunks form a prefix of the chunk list and each holds one   *)
(* comment verbatim, from its opening delimiter through the first closing    *)
(* delimiter; the text that follows this prefix does not begin with a        *)
(* terminated comment.  Every other chunk has a non-whitespace lexeme and is *)
(* classified by the first one: 'other' when no '{' follows (it is then the  *)
(* last chunk), else 'at-rule' for '@', 'root' for ':root', 'rule' for       *)
(* anything else, an opening comment delimiter included.  The chunks hold    *)
(* every non-whitespace lexeme of the text once, in order.                   *)
C10_Classified ==
    pc = "returned"
       => /\ StripWs(JoinChunks(chunks)) = StripWs(block_text)
          /\ \A n \in 1 .. Len(chunks) :
                LET c == chunks[n]
                IN  /\ FirstLexeme(c.text) # "ws"
                    /\ c.kind = "comment"
                          => /\ n = 1 \/ chunks[n - 1].kind = "comment"
                             /\ c.text[1] = "/*"
                             /\ Find(c.text, "*/", 0) = Len(c.text) - 1
                    /\ c.kind # "comment"
                          => /\ n = 1 \/ chunks[n - 1].kind = "comment"
                                => ~StartsWithComment(JoinChunks(SubSeq(chunks, n, Len(chunks))))
                             /\ c.kind = "other" <=> "{" \notin Range(c.text)
                             /\ c.kind = "other" => n = Len(chunks)
                             /\ c.kind # "other"
                                   => c.kind = IF FirstLexeme(c.text) = "@" THEN "at-rule"
                                               ELSE IF FirstLexeme(c.text) = ":root" THEN "root"
                                               ELSE "rule"
          /\ StartsWithComment(block_text)
                => /\ chunks # <<>>
                   /\ chunks[1].kind = "comment"
                   /\ chunks[1].text = Slice(block_text, SkipWs(block_text, 0),
                                             Find(block_text, "*/", SkipWs(block_text, 0)) + 1)

\* a leading comment, a :root block, and a comment after it absorbed into a rule
C10_Witness ==
    /\ pc = "returned"
    /\ Len(chunks) = 3
    /\ chunks[1].kind = "comment"
    /\ chunks[2].kind = "root"
    /\ chunks[3].kind = "rule"
    /\ StartsWithComment(chunks[3].text)

----------------------------------------------------------------------------
\* the offsets e after the opening brace at b at which the depth is back to 0
MatchingEnds(t, b) == {e \in b + 2 .. Len(t) : t[e] = "}" /\ BraceDepth(t, b, e) = 0}

\* the text from chunk n on
RestFrom(n) == JoinChunks(SubSeq(chunks, n, Len(chunks)))

\* the offset in block_text at which chunk n starts, -1 when the chunks from
\* n on are not the end of block_text up to trailing whitespace
ChunkStart(n) ==
    LET starts == {a \in 0 .. Len(block_text) :
                      /\ Slice(block_text, a, a + Len(RestFrom(n))) = RestFrom(n)
                      /\ Len(RestFrom(n)) <= Len(block_text) - a
                      /\ \A p \in a + Len(RestFrom(n)) .. Len(block_text) - 1 :
                            block_text[p + 1] = "ws"}
    IN  IF starts = {} THEN -1 ELSE Min(starts)

(* C11: an at-rule chunk runs from where the previous chunk ended through    *)
(* the first '}' at which the braces counted from the first '{' after the    *)
(* '@' are back to depth 0: every nested rule is inside it, nothing after    *)
(* that close is, and the next chunk starts at the lexeme right after it.    *)
(* When no such close exists in the text the chunk is the last one and runs  *)
(* to the end of the text.                                                   *)
C11_AtRuleExtent ==
    pc = "returned"
       => \A n \in 1 .. Len(chunks) :
             chunks[n].kind = "at-rule"
                => LET a    == ChunkStart(n)
                       rest == Slice(block_text, a, Len(block_text))
                       b    == Find(rest, "{", 0)
                       text == chunks[n].text
                   IN  /\ a # -1
                       /\ FirstLexeme(text) = "@"
                       /\ b # -1 /\ b < Len(text)
                       /\ MatchingEnds(rest, b) # {}
                             => /\ Len(text) = Min(MatchingEnds(rest, b))
                                /\ text = Slice(rest, 0, Len(text))
                                /\ n < Len(chunks) => ChunkStart(n + 1) = a + Len(text)
                       /\ MatchingEnds(rest, b) = {}
                             => n = Len(chunks) /\ text = rest

\* an at-rule holding a nested rule, followed by another rule
C11_Witness ==
    /\ pc = "returned"
    /\ Len(chunks) = 2
    /\ chunks[1].kind = "at-rule"
    /\ chunks[1].text = <<"@", "{", "mob", "{", "}", "}">>
    /\ chunks[2].kind = "rule"
    /\ ChunkStart(2) = 6

----------------------------------------------------------------------------
\* the braces of the chunk text, counted from its first '{', return to depth 0
Terminated(text) == MatchingEnds(text, Find(text, "{", 0)) # {}

\* C12 as stated: the call never returns a 'rule', 'at-rule' or 'root' chunk
\* whose braces do not return to depth 0.
C12_Original ==
    pc = "returned"
       => \A n \in 1 .. Len(chunks) :
             chunks[n].kind \in {"rule", "at-rule", "root"} => Terminated(chunks[n].text)

(* C12: no error is raised for a block whose braces never return to depth 0. *)
(* The call returns; the unterminated text, from the end of the previous     *)
(* chunk to the end of block_text, is the last chunk, of the kind of its     *)
(* first lexeme, and it is filtered like any other chunk: dropped and        *)
(* counted in removed_bytes when all the ids it mentions are mobile ids,     *)
(* kept otherwise.  Every chunk before it is terminated, and no             *)
(* non-whitespace lexeme of block_text is missing from the chunks.           *)
C12_UnterminatedEmitted ==
    pc = "returned"
       => /\ StripWs(block_text) = StripWs(JoinChunks(chunks))
          /\ \A n \in 1 .. Len(chunks) :
                LET text == chunks[n].text
                    ids  == ExtractIds(text)
                    dead == chunks[n].kind \in {"rule", "at-rule"} /\ ids # {} /\ ids \subseteq MobileIdSet
                IN  (chunks[n].kind \in {"rule", "at-rule", "root"} /\ ~Terminated(text))
                       => /\ n = Len(chunks)
                          /\ ChunkStart(n) # -1
                          /\ text = Slice(block_text, ChunkStart(n), Len(block_text))
                          /\ chunks[n].kind = IF FirstLexeme(text) = "@" THEN "at-rule"
                                              ELSE IF FirstLexeme(text) = ":root" THEN "root"
                                              ELSE "rule"
                          /\ dead => /\ removed_bytes >= Len(text)
                                     /\ Len(filtered) = Len(JoinChunks(chunks)) - removed_bytes
                                     /\ IsSubseq(filtered, JoinChunks(SubSeq(chunks, 1, n - 1)))
                          /\ ~dead => /\ Len(filtered) >= Len(text)
                                      /\ Slice(filtered, Len(filtered) - Len(text), Len(filtered)) = text

\* a desktop rule followed by an unterminated at-rule mentioning only a mobile
\* id: the at-rule chunk is emitted and dropped by the filter
C12_Witness ==
    /\ pc = "returned"
    /\ Len(chunks) = 2
    /\ chunks[2] = [kind |-> "at-rule", text |-> <<"@", "{", "mob", "{", "}">>]
    /\ filtered = <<"desk", "{", "}">>
    /\ removed_bytes = 5

----------------------------------------------------------------------------
(* Vocabulary of the dead-rule filter's properties; the dead set is          *)
(* MobileIdSet.                                                              *)

\* the chunk is a rule or at-rule whose ids are a non-empty subset of the dead set
DeadChunk(c) ==
    /\ c.kind \in {"rule", "at-rule"}
    /\ ExtractIds(c.text) # {}
    /\ \A id \in ExtractIds(c.text) : id \in MobileIdSet

\* the chunk mentions a dead id and an id outside the dead set
MixedChunk(c) ==
    /\ \E id \in ExtractIds(c.text) : id \in MobileIdSet
    /\ \E id \in ExtractIds(c.text) : id \notin MobileIdSet

RECURSIVE LiveLenBefore(_)
\* the lengths, added up, of the chunks before chunk n that are not dead
LiveLenBefore(n) ==
    IF n <= 1 THEN 0
    ELSE LiveLenBefore(n - 1)
            + (IF DeadChunk(chunks[n - 1]) THEN 0 ELSE Len(chunks[n - 1].text))

RECURSIVE DeadLenBefore(_)
\* the lengths, added up, of the dead chunks before chunk n
DeadLenBefore(n) ==
    IF n <= 1 THEN 0
    ELSE DeadLenBefore(n - 1)
            + (IF DeadChunk(chunks[n - 1]) THEN Len(chunks[n - 1].text) ELSE 0)

\* the part of the output that stands where chunk n stands when it is kept
OutSlice(n) ==
    Slice(filtered, LiveLenBefore(n), LiveLenBefore(n) + Len(chunks[n].text))

\* the chunk is always kept: comment, root, other, or no id extracted
AlwaysKept(c) == c.kind \in {"comment", "root", "other"} \/ ExtractIds(c.text) = {}

(* C13: a chunk of kind comment, root or other, whatever ids it mentions,    *)
(* and a rule or at-rule chunk in which no id is found, is in the output     *)
(* verbatim, after the kept chunks that precede it; when every chunk is of   *)
(* this sort the output is the chunks' texts and nothing is counted removed. *)
C13_AlwaysKept ==
    pc = "returned"
       => /\ \A n \in 1 .. Len(chunks) :
                AlwaysKept(chunks[n])
                   => /\ LiveLenBefore(n) + Len(chunks[n].text) <= Len(filtered)
                      /\ OutSlice(n) = chunks[n].text
          /\ (\A n \in 1 .. Len(chunks) : AlwaysKept(chunks[n]))
                => filtered = JoinChunks(chunks) /\ removed_bytes = 0

\* a comment mentioning only a dead id is kept while the dead rule after it
\* is dropped, and a rule without ids is kept
C13_Witness ==
    /\ pc = "returned"
    /\ Len(chunks) = 3
    /\ chunks[1] = [kind |-> "comment", text |-> <<"/*", "mob", "*/">>]
    /\ chunks[2].kind = "rule" /\ ExtractIds(chunks[2].text) = {}
    /\ DeadChunk(chunks[3])
    /\ filtered = chunks[1].text \o chunks[2].text

(* C14: a rule or at-rule chunk whose ids are a non-empty subset of the dead *)
(* set contributes nothing to the output, and removed_bytes is the sum of    *)
(* the lengths of the dead chunks, no more and no less: the output has the   *)
(* length of the other chunks, and it holds each lexeme as often as they do. *)
C14_DeadDropped ==
    pc = "returned"
       => /\ removed_bytes = DeadLenBefore(Len(chunks) + 1)
          /\ Len(filtered) = LiveLenBefore(Len(chunks) + 1)
          /\ Len(filtered) + removed_bytes = Len(JoinChunks(chunks))
          /\ \A tok \in {"mob", "desk", "s", "@", "{", "}"} :
                CountTok(filtered, tok)
                   = CountTok(JoinChunks(SelectSeq(chunks, LAMBDA c : ~DeadChunk(c))), tok)
          /\ (\A n \in 1 .. Len(chunks) : DeadChunk(chunks[n])) => filtered = <<>>

\* a dead rule and a dead at-rule of different lengths dropped around a kept rule
C14_Witness ==
    /\ pc = "returned"
    /\ Len(chunks) = 3
    /\ DeadChunk(chunks[1]) /\ chunks[1].kind = "rule"
    /\ ~DeadChunk(chunks[2])
    /\ DeadChunk(chunks[3]) /\ chunks[3].kind = "at-rule"
    /\ removed_bytes = 8
    /\ filtered = chunks[2].text

\* C15 as stated: from an at-rule chunk that mentions a live id together with
\* dead ones, the inner rules whose ids are all dead are removed (here the
\* rule '.mob{}' standing directly inside the at-rule's braces).
C15_Original ==
    pc = "returned"
       => \/ ~(/\ Len(chunks) = 1
                /\ chunks[1].kind = "at-rule"
                /\ MixedChunk(chunks[1])
                /\ Terminated(chunks[1].text))
          \/ \A p \in 0 .. Len(filtered) - 3 :
                ~(/\ Slice(filtered, p, p + 3) = <<"mob", "{", "}">>
                  /\ BraceDepth(filtered, 0, p) = 1)

(* C15: an at-rule chunk that mentions a live id together with dead ones is  *)
(* not tokenized again: like a plain rule chunk in the same situation it is  *)
(* in the output as it is, its inner rules whose ids are all dead included,  *)
(* and it adds nothing to removed_bytes.                                     *)
C15_MixedKeptWhole ==
    pc = "returned"
       => \A n \in 1 .. Len(chunks) :
             (chunks[n].kind \in {"rule", "at-rule"} /\ MixedChunk(chunks[n]))
                => /\ OutSlice(n) = chunks[n].text
                   /\ CountTok(OutSlice(n), "mob") = CountTok(chunks[n].text, "mob")
                   /\ Len(chunks) = 1 => filtered = chunks[1].text /\ removed_bytes = 0

\* an at-rule holding a dead rule and a live rule comes out whole
C15_Witness ==
    /\ pc = "returned"
    /\ chunks = << [kind |-> "at-rule",
                    text |-> <<"@", "{", "mob", "{", "}", "desk", "{", "}", "}">>] >>
    /\ filtered = <<"@", "{", "mob", "{", "}", "desk", "{", "}", "}">>
    /\ removed_bytes = 0

(* C16: with dead set {mob1}, the text of three rules mentioning {mob1},     *)
(* {desk1} and {mob1, desk1} loses exactly the first rule; in general a rule *)
(* or at-rule chunk mentioning an id outside the dead set is in the output   *)
(* unmodified.                                                               *)
C16_Exactness ==
    pc = "returned"
       => /\ block_text = <<"mob", "{", "}", "desk", "{", "}", "mob", "desk", "{", "}">>
                => /\ Len(chunks) = 3
                   /\ filtered = <<"desk", "{", "}", "mob", "desk", "{", "}">>
                   /\ removed_bytes = 3
          /\ \A n \in 1 .. Len(chunks) :
                (\E id \in ExtractIds(chunks[n].text) : id \notin MobileIdSet)
                   => /\ ~DeadChunk(chunks[n])
                      /\ LiveLenBefore(n) + Len(chunks[n].text) <= Len(filtered)
                      /\ OutSlice(n) = chunks[n].text

C16_Witness ==
    /\ MobileIdSet = {"mob1"}
    /\ pc = "returned"
    /\ Len(chunks) = 3
    /\ ExtractIds(chunks[1].text) = {"mob1"}
    /\ ExtractIds(chunks[2].text) = {"desk1"}
    /\ ExtractIds(chunks[3].text) = {"mob1", "desk1"}
    /\ filtered = chunks[2].text \o chunks[3].text

(* C17: the output is the chunk sequence with the dead chunks deleted: the   *)
(* kept chunks' texts in the order of the input, each once.                  *)
C17_OrderKept ==
    pc = "returned"
       => filtered = JoinChunks(SelectSeq(chunks, LAMBDA c : ~DeadChunk(c)))

\* three different kept chunks around a dropped one
C17_Witness ==
    /\ pc = "returned"
    /\ Len(chunks) = 4
    /\ DeadChunk(chunks[2])
    /\ chunks[1].text # chunks[3].text /\ chunks[3].text # chunks[4].text
    /\ filtered = chunks[1].text \o chunks[3].text \o chunks[4].text

----------------------------------------------------------------------------
(* The identifier renames: rename_ids.rename_ids and                         *)
(* rename_content_ids.main / do_replacement.                                 *)
(*                                                                           *)
(* Here a lexeme is one written form of an identifier, [form, type, suffix], *)
(* standing for the string  form + type + "-" + suffix : form "id" is the    *)
(* attribute id="type-suffix", "#" and "." the selectors, ".bg-" the         *)
(* background class, "c" the c-prefixed class ctype-suffix.  A suffix is a   *)
(* sequence of parts, written with "-" between them: <<"x", "2">> is x-2.    *)
(* TextLex is any text that holds no identifier.  The string type-S occurs   *)
(* in every form of an identifier of that type whose suffix begins with the  *)
(* parts S, and "heading-S" occurs in "sub-heading-S" too.                   *)
(*                                                                           *)
(* rename_ids replaces plain strings, and an identifier of its tables can    *)
(* end with the letter another begins with, so its documents are sequences   *)
(* of pieces of text, each named by the text it stands for: one entry of     *)
(* SECTION_MAP and one of ROW_MAP, cut where the new row identifier          *)
(* 'row-faq-items' ends with the 's' that begins 'section-...'.              *)

MaxRenameLen == 3

TextLex == [form |-> "text", type |-> "", suffix |-> <<>>]

\* the string T + "-" occurs in the string t + "-"
TypeContains(t, T) == t = T \/ (t = "sub-heading" /\ T = "heading")

\* the parts S begin the suffix
StartsWith(suffix, S) == Len(S) <= Len(suffix) /\ SubSeq(suffix, 1, Len(S)) = S

\* the suffix with its beginning S replaced by N
Swap(suffix, S, N) == N \o SubSeq(suffix, Len(S) + 1, Len(suffix))

\* content.count(old_id) for old_id = T-S
CountId(content, T, S) ==
    Cardinality({p \in 1 .. Len(content) :
                    TypeContains(content[p].type, T) /\ StartsWith(content[p].suffix, S)})

ReplaceId_FormIdOnly(content, T, S, N) ==
    [p \in 1 .. Len(content) |->
        IF content[p].type = T /\ StartsWith(content[p].suffix, S) /\ content[p].form = "id"
        THEN [content[p] EXCEPT !.suffix = Swap(@, S, N)] ELSE content[p]]

\* content.replace(old_id, new_id) for old_id = T-S and new_id = T-N
ReplaceId(content, T, S, N) ==
    [p \in 1 .. Len(content) |->
        IF TypeContains(content[p].type, T) /\ StartsWith(content[p].suffix, S)
        THEN [content[p] EXCEPT !.suffix = Swap(@, S, N)] ELSE content[p]]

\* content.count(old_c) for old_c = cT-S
CountC(content, T, S) ==
    Cardinality({p \in 1 .. Len(content) :
                    /\ content[p].form = "c" /\ content[p].type = T
                    /\ StartsWith(content[p].suffix, S)})

\* content.replace(old_c, new_c)
ReplaceC(content, T, S, N) ==
    [p \in 1 .. Len(content) |->
        IF content[p].form = "c" /\ content[p].type = T /\ StartsWith(content[p].suffix, S)
        THEN [content[p] EXCEPT !.suffix = Swap(@, S, N)] ELSE content[p]]

\* do_replacement(content, old_base, new_base, element_type)
DoReplacement(content, old_base, new_base, element_type) ==
    LET old_suffix == old_base[2]
        c  == CountId(content, element_type, old_suffix)
        content1 == IF c > 0 THEN ReplaceId(content, element_type, old_suffix, new_base)
                    ELSE content
        c2 == CountC(content1, element_type, old_suffix)
        content2 == IF c2 > 0 THEN ReplaceC(content1, element_type, old_suffix, new_base)
                    ELSE content1
    IN  [content |-> content2, count |-> c + c2]

\* the order of sorted() on the suffixes
Rank(suffix) ==
    CASE suffix = <<"A">> -> 1 [] suffix = <<"B">> -> 2 [] suffix = <<"x">> -> 3 [] OTHER -> 4

RECURSIVE SortedSeq(_)
SortedSeq(S) ==
    IF S = {} THEN <<>>
    ELSE LET m == CHOOSE a \in S : \A b \in S : Rank(a) <= Rank(b)
         IN  <<m>> \o SortedSeq(S \ {m})

\* sorted(set(re.findall(r'id="(typ-[A-Za-z0-9_-]{6,})"', content)))
IdsOfType(content, typ) ==
    LET found == {content[p].suffix : p \in {q \in 1 .. Len(content) :
                                                content[q].form = "id" /\ content[q].type = typ}}
        sorted == SortedSeq(found)
    IN  [n \in 1 .. Len(sorted) |-> <<typ, sorted[n]>>]

\* find_all_content_ids(content), the lists of the types one after the other
FindAllContentIds(content) ==
    IdsOfType(content, "heading") \o IdsOfType(content, "sub-heading")

\* str.count(pat) from the offset 'from' on: the occurrences are found from
\* left to right and none overlaps the one before it
RECURSIVE StrCountFrom(_, _, _)
StrCountFrom(s, pat, from) ==
    LET p == FindSeq(s, pat, from)
    IN  IF p = -1 THEN 0 ELSE 1 + StrCountFrom(s, pat, p + Len(pat))

\* s.count(pat)
StrCount(s, pat) == StrCountFrom(s, pat, 0)

\* s[from:].replace(pat, new)
RECURSIVE StrReplaceFrom(_, _, _, _)
StrReplaceFrom(s, pat, new, from) ==
    LET p == FindSeq(s, pat, from)
    IN  IF p = -1 THEN Slice(s, from, Len(s))
        ELSE Slice(s, from, p) \o new \o StrReplaceFrom(s, pat, new, p + Len(pat))

StrReplace_FirstOnly(s, pat, new) ==
    LET p == FindSeq(s, pat, 0)
    IN  IF p = -1 THEN s ELSE Slice(s, 0, p) \o new \o Slice(s, p + Len(pat), Len(s))

\* s.replace(pat, new)
StrReplace(s, pat, new) == StrReplaceFrom(s, pat, new, 0)

\* all_maps (SECTION_MAP, then ROW_MAP, then COL_MAP), in the order of the
\* loop: 'section-qV2_UC8cuJ' -> 'section-top-bar' and, later,
\* 'row-sg-naKtU9j' -> 'row-faq-items'.  Distinct old ids, distinct new ids,
\* no new id among the old ones, none inside another.
AllMaps ==
    << [old |-> <<"s", "ection-qV2_UC8cuJ">>, new |-> <<"s", "ection-top-bar">>],
       [old |-> <<"row-sg-naKtU9j">>, new |-> <<"row-faq-item", "s">>] >>

\* the pieces of text of a document of rename_ids
RenameIdsTexts ==
    {"s", "ection-qV2_UC8cuJ", "ection-top-bar", "row-sg-naKtU9j", "row-faq-item", " "}

\* the names a generate_*_name function may return; x-2 is the name x made
\* distinct 'f'{candidate}-{i}''
Names == {<<"x">>, <<"B">>, <<"x", "2">>}

RenameLexemes(sc) ==
    IF sc = "rename_ids" THEN RenameIdsTexts
    ELSE {TextLex} \cup [form : {"id", ".", "c"}, type : {"heading", "sub-heading"},
                         suffix : {<<"A">>, <<"B">>, <<"x">>}]

RenameDocs(sc) == UNION {[1 .. n -> RenameLexemes(sc)] : n \in 0 .. MaxRenameLen}

InitRename ==
    /\ script \in {"rename_ids", "rename_content_ids"}
    /\ pc = "start"
    /\ html0 \in RenameDocs(script)
    /\ html = <<>> /\ prevHtml = <<>> /\ queue = <<>> /\ report = <<>>
    /\ files = ("index.html" :> html0) /\ runs = 0
    /\ NoCss

\* rename_ids: read the file, copy it to the backup, combine the maps
RenameIdsOpen ==
    /\ script = "rename_ids" /\ pc = "start"
    /\ html' = files["index.html"]
    /\ files' = ("index.html.pre-rename" :> files["index.html"]) @@ files
    /\ queue' = AllMaps
    /\ pc' = "loop"
    /\ UNCHANGED <<script, html0, prevHtml, report, cssVars, runs>>

RenameIdsIter_NoWarning ==
    /\ script = "rename_ids" /\ pc = "loop" /\ queue # <<>>
    /\ LET old_id == Head(queue).old
           new_id == Head(queue).new
           count  == StrCount(html, old_id)
       IN  /\ html' = StrReplace(html, old_id, new_id)
           /\ report' = Append(report, [old |-> old_id, new |-> new_id, count |-> count,
                                        skipped |-> FALSE, warning |-> FALSE,
                                        mapped |-> TRUE])
    /\ prevHtml' = html
    /\ queue' = Tail(queue)
    /\ UNCHANGED <<script, pc, html0, cssVars, files, runs>>

\* rename_ids: one iteration of 'for old_id, new_id in all_maps.items()'
RenameIdsIter ==
    /\ script = "rename_ids" /\ pc = "loop" /\ queue # <<>>
    /\ LET old_id == Head(queue).old
           new_id == Head(queue).new
           count  == StrCount(html, old_id)
       IN  /\ html' = StrReplace(html, old_id, new_id)
           /\ report' = Append(report, [old |-> old_id, new |-> new_id, count |-> count,
                                        skipped |-> FALSE, warning |-> (count = 0),
                                        mapped |-> TRUE])
    /\ prevHtml' = html
    /\ queue' = Tail(queue)
    /\ UNCHANGED <<script, pc, html0, cssVars, files, runs>>

\* rename_ids: write the file and id_map.json
RenameIdsWrite ==
    /\ script = "rename_ids" /\ pc = "loop" /\ queue = <<>>
    /\ files' = ("index.html" :> html) @@ ("id_map.json" :> {<<m.old, m.new>> : m \in Range(AllMaps)})
                    @@ files
    /\ pc' = "written"
    /\ UNCHANGED <<script, html0, html, prevHtml, queue, report, cssVars, runs>>

\* rename_content_ids.main: read the file, find_all_content_ids
ContentOpen ==
    /\ script = "rename_content_ids" /\ pc = "start"
    /\ html' = files["index.html"]
    /\ queue' = FindAllContentIds(files["index.html"])
    /\ pc' = "loop"
    /\ UNCHANGED <<script, html0, prevHtml, report, cssVars, files, runs>>

\* rename_content_ids.main: one iteration of 'for idx, old_id in enumerate(ids, 1)'.
\* new_name is what gen_func returns: it is computed from text of the document
\* that the lexemes leave open, and a name returned before can come back from
\* the numbered fallbacks, which do not look at used_names.
ContentIter ==
    /\ script = "rename_content_ids" /\ pc = "loop" /\ queue # <<>>
    /\ \E new_name \in Names :
          LET old_id       == Head(queue)
              element_type == old_id[1]
              new_full_id  == <<element_type, new_name>>
              r            == DoReplacement(html, old_id, new_name, element_type)
          IN  IF old_id = new_full_id
              THEN /\ html' = html
                   /\ report' = Append(report, [old |-> old_id, new |-> new_full_id, count |-> 0,
                                                skipped |-> TRUE, warning |-> FALSE,
                                                mapped |-> FALSE])
              ELSE /\ html' = r.content
                   /\ report' = Append(report, [old |-> old_id, new |-> new_full_id,
                                                count |-> r.count, skipped |-> FALSE,
                                                warning |-> FALSE, mapped |-> (r.count > 0)])
    /\ prevHtml' = html
    /\ queue' = Tail(queue)
    /\ UNCHANGED <<script, pc, html0, cssVars, files, runs>>

\* rename_content_ids.main: write the file and content_id_map.json
ContentWrite ==
    /\ script = "rename_content_ids" /\ pc = "loop" /\ queue = <<>>
    /\ files' = ("index.html" :> html)
                    @@ ("content_id_map.json" :>
                           {<<report[n].old, report[n].new>> :
                               n \in {m \in 1 .. Len(report) : report[m].mapped}})
                    @@ files
    /\ pc' = "written"
    /\ UNCHANGED <<script, html0, html, prevHtml, queue, report, cssVars, runs>>

NextRename ==
    \/ RenameIdsOpen
    \/ RenameIdsIter
    \/ RenameIdsWrite
    \/ ContentOpen
    \/ ContentIter
    \/ ContentWrite

SpecRename == InitRename /\ [][NextRename]_vars

----------------------------------------------------------------------------
(* rename_content_ids: generate_heading_name and generate_subheading_name,   *)
(* called for the elements of one type with one set used_names               *)
(*                                                                           *)
(* A name is a sequence of parts, as above.  Of an element the model keeps   *)
(* the candidate its text gives: the name of the known heading the text      *)
(* holds, else slugify(text) when that is longer than three characters,      *)
(* else nothing, <<>>.  queue holds the candidates of the elements still to  *)
(* be named, report the names returned so far; used_names is the set of      *)
(* these names, since every path of the functions adds the name it returns.  *)

MaxElements == 4

\* str(n)
IdxStr(n) == <<"1", "2", "3", "4", "5", "6", "7">>[n]

\* the candidates: none, a slug, the same slug followed by 2, and slugs of
\* the texts 'Text 2' and 'Subhead 2'
Candidates == {<<>>, <<"x">>, <<"x", "2">>, <<"text", "2">>, <<"subhead", "2">>}

\* used_names
UsedNames == {report[n].new : n \in 1 .. Len(report)}

\* 'i = 2; while f'{candidate}-{i}' in used: i += 1'
FirstFree(candidate, used) ==
    Min({i \in 2 .. Cardinality(used) + 2 : candidate \o <<IdxStr(i)>> \notin used})

\* the numbered fallback of the function: f'text-{idx}', f'subhead-{idx}'
Fallback(gen_func, idx) ==
    IF gen_func = "generate_heading_name" THEN <<"text", IdxStr(idx)>>
    ELSE <<"subhead", IdxStr(idx)>>

\* the name gen_func(content, element_id, idx, used) returns for an element
\* whose text gives the candidate
GenerateName(gen_func, candidate, idx, used) ==
    IF candidate # <<>>
    THEN IF candidate \in used THEN candidate \o <<IdxStr(FirstFree(candidate, used))>>
         ELSE candidate
    ELSE Fallback(gen_func, idx)

InitNames ==
    /\ script \in {"generate_heading_name", "generate_subheading_name"}
    /\ pc = "loop"
    /\ queue \in UNION {[1 .. n -> Candidates] : n \in 0 .. MaxElements}
    /\ html0 = <<>> /\ html = <<>> /\ prevHtml = <<>>
    /\ report = <<>>
    /\ NoCss
    /\ files = NoFiles /\ runs = 0

\* new_name = gen_func(content, old_id, idx, used_names) in
\* 'for idx, old_id in enumerate(ids, 1)'
GenerateNameCall ==
    /\ script \in {"generate_heading_name", "generate_subheading_name"}
    /\ pc = "loop" /\ queue # <<>>
    /\ report' = Append(report, [idx |-> Len(report) + 1, candidate |-> Head(queue),
                                 new |-> GenerateName(script, Head(queue), Len(report) + 1,
                                                      UsedNames)])
    /\ queue' = Tail(queue)
    /\ UNCHANGED <<script, pc, html0, html, prevHtml, cssVars, files, runs>>

\* the elements of the type are all named
GenerateNamesEnd ==
    /\ script \in {"generate_heading_name", "generate_subheading_name"}
    /\ pc = "loop" /\ queue = <<>>
    /\ pc' = "done"
    /\ UNCHANGED <<script, html0, html, prevHtml, queue, report, cssVars, files, runs>>

NextNames == GenerateNameCall \/ GenerateNamesEnd

SpecNames == InitNames /\ [][NextNames]_vars

----------------------------------------------------------------------------
\* the pairs the run has applied: the visited pairs that were not skipped
Applied == {n \in 1 .. Len(report) : ~report[n].skipped}

\* two applied pairs have the same new id, or the new id of one is the old id
\* of another
Collision ==
    \E i \in Applied : \E j \in Applied \ {i} :
        report[i].new = report[j].new \/ report[i].new = report[j].old

\* C18 as stated: a run whose pairs collide does not modify the document.
C18_Original ==
    (pc = "written" /\ Collision) => files["index.html"] = html0

(* C18: neither script checks the pairs for collisions and neither fails:    *)
(* every pair is applied, in order, to the document the pairs before it      *)
(* left, and the result is written.  The tables of rename_ids have no        *)
(* collision.  In rename_content_ids, when the second pair has the new id of *)
(* the first, the occurrences of both old ids carry that id afterwards; when *)
(* its old id is the new id of the first, it renames the occurrences the     *)
(* first pair produced as well.                                              *)
C18_NoCollisionCheck ==
    /\ pc = "written"
          => /\ files["index.html"] = html
             /\ script = "rename_ids" => Len(report) = Len(AllMaps) /\ ~Collision
             /\ script = "rename_content_ids" => Len(report) = Len(FindAllContentIds(html0))
    /\ (script = "rename_content_ids" /\ Len(report) = 2 /\ Applied = {1, 2})
          => LET T == report[2].new[1]
             IN  /\ report[1].new = report[2].new
                    => CountId(html, T, report[2].new[2])
                          >= CountId(html0, T, report[1].old[2]) + CountId(html0, T, report[2].old[2])
                 /\ report[1].new = report[2].old
                    => /\ report[2].count >= report[1].count
                       /\ CountId(html, T, report[2].new[2])
                             >= CountId(html0, T, report[1].old[2])

\* two different old ids, both present, were given the same new id and the
\* document was written
C18_Witness ==
    /\ pc = "written"
    /\ script = "rename_content_ids"
    /\ Len(report) = 2
    /\ report[1].new = report[2].new
    /\ report[1].old # report[2].old
    /\ report[1].count > 0 /\ report[2].count > 0
    /\ files["index.html"] # html0

\* the lexeme holds the identifier string T-S
HoldsId(lex, T, S) == TypeContains(lex.type, T) /\ StartsWith(lex.suffix, S)

(* C19: the pair applied last replaced every occurrence of its old id, in    *)
(* each written form (the base form and the c-prefixed form; id="..", #, .,  *)
(* .bg-), once: each lexeme that held the old id holds the new id in its     *)
(* place, every other lexeme is untouched, and the count is the number of    *)
(* occurrences in the document as it was before the pair, each counted once: *)
(* 3 for a document holding three forms once each.                           *)
C19_Complete ==
    /\ (script = "rename_content_ids" /\ report # <<>> /\ ~Last(report).skipped)
          => LET T == Last(report).old[1]
                 S == Last(report).old[2]
                 N == Last(report).new[2]
             IN  /\ Len(html) = Len(prevHtml)
                 /\ \A p \in 1 .. Len(html) :
                       /\ HoldsId(prevHtml[p], T, S)
                             => html[p] = [form |-> prevHtml[p].form, type |-> prevHtml[p].type,
                                           suffix |-> Swap(prevHtml[p].suffix, S, N)]
                       /\ ~HoldsId(prevHtml[p], T, S) => html[p] = prevHtml[p]
                 /\ Last(report).count
                       = Cardinality({p \in 1 .. Len(prevHtml) : HoldsId(prevHtml[p], T, S)})
    /\ (/\ script = "rename_content_ids"
        /\ \E S \in {<<"A">>, <<"B">>, <<"x">>} :
              html0 = << [form |-> "id", type |-> "heading", suffix |-> S],
                         [form |-> ".", type |-> "heading", suffix |-> S],
                         [form |-> "c", type |-> "heading", suffix |-> S] >>
        /\ report # <<>> /\ ~report[1].skipped)
          => report[1].count = 3
    /\ (/\ script = "rename_ids"
        /\ html0 = <<"row-sg-naKtU9j", "row-sg-naKtU9j", "row-sg-naKtU9j">>
        /\ Len(report) = 2)
          => report[2].count = 3 /\ html = Rep(AllMaps[2].new, 3)

\* C20 as stated: every applied pair with count 0 carries a warning.
C20_Original ==
    \A n \in Applied : report[n].count = 0 => report[n].warning

(* C20: a pair whose old id does not occur has count 0 and never stops the   *)
(* run: the remaining pairs are applied and the file is written.  rename_ids *)
(* prints a warning for exactly the pairs with count 0 and keeps every pair  *)
(* in id_map.json.  rename_content_ids prints no warning: a pair with count  *)
(* 0 is left out of content_id_map.json, which holds exactly the pairs with  *)
(* a count above 0.                                                          *)
C20_ZeroCount ==
    /\ \A n \in Applied :
          /\ script = "rename_ids"
                => /\ report[n].warning <=> report[n].count = 0
                   /\ report[n].mapped
          /\ script = "rename_content_ids"
                => /\ ~report[n].warning
                   /\ report[n].mapped <=> report[n].count > 0
    /\ (\E n \in Applied : report[n].count = 0)
          => \/ pc = "loop"
             \/ /\ pc = "written"
                /\ files["index.html"] = html
                /\ script = "rename_ids"
                      => /\ Len(report) = Len(AllMaps)
                         /\ files["id_map.json"] = {<<m.old, m.new>> : m \in Range(AllMaps)}
                /\ script = "rename_content_ids"
                      => /\ Len(report) = Len(FindAllContentIds(html0))
                         /\ files["content_id_map.json"]
                               = {<<report[n].old, report[n].new>> :
                                     n \in {m \in Applied : report[m].count > 0}}

\* rename_ids warned about its first pair, renamed with the second and wrote
C20_Witness ==
    /\ script = "rename_ids"
    /\ pc = "written"
    /\ report[1].count = 0 /\ report[1].warning
    /\ report[2].count = 2 /\ ~report[2].warning
    /\ files["index.html"] # html0

----------------------------------------------------------------------------
(* The scripts run again and again on the files they leave: rename_ids,      *)
(* merge_responsive.main, optimize_site.main and cleanup.main.               *)

MaxRuns == 3

\* 'if __name__ == "__main__"': the script has ended, by its last statement
\* or by an exception, and is started again
RunAgain ==
    /\ pc \in {"written", "raised"} /\ runs + 1 < MaxRuns
    /\ pc' = "start"
    /\ runs' = runs + 1
    /\ html' = <<>> /\ prevHtml' = <<>> /\ queue' = <<>> /\ report' = <<>>
    /\ UNCHANGED <<script, html0, cssVars, files>>

\* the backup file each script writes
BackupPath(sc) ==
    CASE sc = "rename_ids" -> "index.html.pre-rename"
      [] sc = "merge" -> "index.html.pre-merge"
      [] sc = "optimize_site" -> "index.html.pre-optimize"
      [] OTHER -> "index.html.bak"

(* merge_responsive.main.  Besides the lexemes of the section removal, a     *)
(* document holds "</style></head>", the CTA link text                       *)
(* "1clickonboarding.com/order_page_" and, once phase 5 has run, the text    *)
(* "RESPONSIVE_CSS"; none of them holds '<div', '</div>' or a marker.        *)

MOBILE_SECTIONS_TO_REMOVE == <<"a", "b">>

\* the section parts of the documents main is run on
MergeBodies == {Flat(ps) : ps \in UNION {[1 .. n -> 1 .. Len(Pieces)] : n \in 0 .. 2}}
                  \cup {ScenarioDoc}

MergeMainDocs ==
    {head \o body \o link :
        head \in {<<>>, <<"</style></head>">>},
        body \in MergeBodies,
        link \in {<<>>, <<"1clickonboarding.com/order_page_">>}}

\* main: phase1_backup(), read the file, enter phase2_remove_mobile_sections
MergeMainOpen ==
    /\ script = "merge" /\ pc = "start"
    /\ files' = (BackupPath("merge") :> files["index.html"]) @@ files
    /\ html' = files["index.html"]
    /\ prevHtml' = files["index.html"]
    /\ queue' = MOBILE_SECTIONS_TO_REMOVE
    /\ pc' = "loop"
    /\ UNCHANGED <<script, html0, report, cssVars, runs>>

\* phase5_add_responsive_css(html)
Phase5AddResponsiveCss(h) ==
    LET insert_point == Find(h, "</style></head>", 0)
    IN  IF insert_point = -1 THEN h
        ELSE Slice(h, 0, insert_point) \o <<"RESPONSIVE_CSS">> \o Slice(h, insert_point, Len(h))

\* phase6_normalize_cta_links(html)
Phase6NormalizeCtaLinks(h) ==
    [p \in 1 .. Len(h) |->
        IF h[p] = "1clickonboarding.com/order_page_" THEN "1clickonboarding.com/order-page"
        ELSE h[p]]

\* main: html = phase5_add_responsive_css(html)
MergeMainPhase5 ==
    /\ script = "merge" /\ pc = "done"
    /\ html' = Phase5AddResponsiveCss(html)
    /\ pc' = "phase5"
    /\ UNCHANGED <<script, html0, prevHtml, queue, report, cssVars, files, runs>>

\* main: html = phase6_normalize_cta_links(html)
MergeMainPhase6 ==
    /\ script = "merge" /\ pc = "phase5"
    /\ html' = Phase6NormalizeCtaLinks(html)
    /\ pc' = "phase6"
    /\ UNCHANGED <<script, html0, prevHtml, queue, report, cssVars, files, runs>>

\* main: write index.html; verify(html) after it only prints (and raises
\* ZeroDivisionError for an empty backup, the file being written already)
MergeMainWrite ==
    /\ script = "merge" /\ pc = "phase6"
    /\ files' = ("index.html" :> html) @@ files
    /\ pc' = "written"
    /\ UNCHANGED <<script, html0, html, prevHtml, queue, report, cssVars, runs>>

(* optimize_site.main.  The pieces of text of index.html:                    *)
(*   " " and "nl"     white space, "nl" the newline the substitutions write  *)
(*   "clearfix"       <div class="clearfix"></div>                           *)
(*   "announcer"      <span class="nuxt-route-announcer">..</span></span>    *)
(*   "stickyLength"   <div id="stickyLength"></div>                          *)
(*   "banner"         <!-- <div class="top_right_banner_outer">..-->         *)
(*   "<img"           the start of an image tag when white space follows it  *)
(*   ">"              the end of a tag                                       *)
(*   "loading"        loading="lazy"                                         *)
(*   "png", "webp"    images/657fce865a248f7b6681373a.png and .webp          *)
(*   "cta"            a CTA buy box as the page has it, without an image     *)
(*   "CTA"            the buy box phase1_deduplicate_ctas writes, which      *)
(*                    holds five image tags, each with loading="lazy"        *)
(* The other files are the two stylesheets, the font files and the images.   *)

MaxSitePieces == 2

\* 'if count <= 5' of phase4b_add_lazy_loading, 'if len(matches) < 15' of
\* phase1_deduplicate_ctas, and the image tags of canonical_cta_inner
AboveFold == 5
MinCtas == 15
CtaImages == 5

IsWs(tok) == tok \in {" ", "nl"}

\* the offset of the first lexeme at or after i that is no white space
RECURSIVE SkipSpaces(_, _)
SkipSpaces(h, i) == IF i < Len(h) /\ IsWs(h[i + 1]) THEN SkipSpaces(h, i + 1) ELSE i

\* re.sub(r'\s*TOK\s*', '\n', h[i:])
RECURSIVE SubWithSpaces(_, _, _)
SubWithSpaces(h, tok, i) ==
    IF i >= Len(h) THEN <<>>
    ELSE LET j == SkipSpaces(h, i)
         IN  IF j < Len(h) /\ h[j + 1] = tok
             THEN <<"nl">> \o SubWithSpaces(h, tok, SkipSpaces(h, j + 1))
             ELSE <<h[i + 1]>> \o SubWithSpaces(h, tok, i + 1)

\* re.sub(TOK, '', h)
Without(h, tok) == SelectSeq(h, LAMBDA x : x # tok)

\* phase5_html_cleanup(html)
Phase5HtmlCleanup(h) ==
    LET h1 == SubWithSpaces(h, "clearfix", 0)
        h2 == Without(h1, "announcer")
        h3 == Without(h2, "stickyLength")
    IN  SubWithSpaces(h3, "banner", 0)

\* the lexemes whose text holds the character '>'
SiteHasGt(tok) == tok \in {">", "clearfix", "announcer", "stickyLength", "banner", "cta", "CTA"}

\* 'loading=' in html[match.start() : html.index('>', match.start()) + 1] for
\* the image tag at position p; "none" when no '>' follows (html.index raises)
TagHasLoading(h, p) ==
    LET gts == {q \in p + 1 .. Len(h) : SiteHasGt(h[q])}
    IN  IF gts = {} THEN "none"
        ELSE IF \E q \in p + 1 .. Min(gts) - 1 : h[q] = "loading" THEN "yes"
        ELSE "no"

\* img_pattern, re '<img\s', matches at position p
ImgAt(h, p) == h[p] = "<img" /\ p < Len(h) /\ IsWs(h[p + 1])

\* count of add_lazy at the image tag at position p: the tags img_pattern
\* has matched up to it, five of them in each "CTA"
ImagesUpTo(h, p) ==
    Cardinality({q \in 1 .. p : ImgAt(h, q)})
        + CtaImages * Cardinality({q \in 1 .. p : h[q] = "CTA"})

\* add_lazy replaces the match at position p
GetsLazy(h, p) ==
    ImgAt(h, p) /\ ImagesUpTo(h, p) > AboveFold /\ TagHasLoading(h, p) = "no"

\* add_lazy raises at some match
LazyRaises(h) ==
    \E p \in 1 .. Len(h) :
        ImgAt(h, p) /\ ImagesUpTo(h, p) > AboveFold /\ TagHasLoading(h, p) = "none"

\* img_pattern.sub(add_lazy, html) from position p on: the match, '<img' and
\* the white space after it, becomes '<img loading="lazy" '
RECURSIVE AddLazy(_, _)
AddLazy(h, p) ==
    IF p > Len(h) THEN <<>>
    ELSE IF GetsLazy(h, p) THEN <<"<img", " ", "loading", " ">> \o AddLazy(h, p + 2)
    ELSE <<h[p]>> \o AddLazy(h, p + 1)

\* phase4b_add_lazy_loading(html)
Phase4bAddLazyLoading(h) == AddLazy(h, 1)

\* phase1_deduplicate_ctas(html)
Phase1DeduplicateCtas(h) ==
    LET matches == {p \in 1 .. Len(h) : h[p] \in {"cta", "CTA"}}
    IN  IF Cardinality(matches) < MinCtas THEN h
        ELSE [p \in 1 .. Len(h) |-> IF p \in matches THEN "CTA" ELSE h[p]]

\* the files of the site besides index.html, as the first run finds them
GoogleFontsCss == "css/google-fonts.css"
EntryCss == "css/entry.IgpDOq8p.css"
LargePng == "images/657fce865a248f7b6681373a.png"
LargeWebp == "images/657fce865a248f7b6681373a.webp"

SiteFiles ==
    (GoogleFontsCss :> <<"@font-face Roboto", "@font-face Kalam", "@font-face Other">>)
    @@ (EntryCss :> <<"fa-src-all-formats">>)
    @@ ("fonts/fa-solid-900.ttf" :> <<"binary">>)
    @@ ("fonts/fa-solid-900.woff2" :> <<"binary">>)
    @@ ("fonts/unused.woff2" :> <<"binary">>)
    @@ ("images/fa-solid-900.svg" :> <<"binary">>)

\* os.remove of each of the names that exist
RemoveFiles(f, names) == [k \in DOMAIN f \ names |-> f[k]]

\* backup_file(src, dst)
BackupFile_Always(f, src, dst) == (dst :> f[src]) @@ f
BackupFile(f, src, dst) ==
    IF dst \in DOMAIN f THEN f ELSE (dst :> f[src]) @@ f

SitePieces ==
    << <<" ">>, <<"clearfix">>, <<"announcer">>, <<"stickyLength">>, <<"banner">>,
       <<"<img", " ", "png", ">">>, <<"<img", " ", "loading", " ", "png", ">">>, <<"<img", " ">>,
       Rep(<<"<img", " ", ">">>, AboveFold), <<"cta">>, Rep(<<"cta">>, MinCtas) >>

RECURSIVE SiteFlat(_)
SiteFlat(ps) == IF ps = <<>> THEN <<>> ELSE SitePieces[Head(ps)] \o SiteFlat(Tail(ps))

SiteDocs ==
    {SiteFlat(ps) : ps \in UNION {[1 .. n -> 1 .. Len(SitePieces)] : n \in 0 .. MaxSitePieces}}

\* main: the sizes, backup_file(INDEX_PATH, BACKUP_PATH), read index.html
OptimizeOpen ==
    /\ script = "optimize_site" /\ pc = "start"
    /\ files' = BackupFile(files, "index.html", BackupPath("optimize_site"))
    /\ html' = files["index.html"]
    /\ pc' = "phase5"
    /\ UNCHANGED <<script, html0, prevHtml, queue, report, cssVars, runs>>

\* main: html = phase5_html_cleanup(html)
OptimizePhase5 ==
    /\ script = "optimize_site" /\ pc = "phase5"
    /\ html' = Phase5HtmlCleanup(html)
    /\ pc' = "phase3a"
    /\ UNCHANGED <<script, html0, prevHtml, queue, report, cssVars, files, runs>>

\* phase3a_trim_google_fonts()
OptimizePhase3a ==
    /\ script = "optimize_site" /\ pc = "phase3a"
    /\ files' = (GoogleFontsCss :> <<"minimal_css">>)
                    @@ BackupFile(files, GoogleFontsCss, "css/google-fonts.css.pre-optimize")
    /\ pc' = "phase3b"
    /\ UNCHANGED <<script, html0, html, prevHtml, queue, report, cssVars, runs>>

\* phase3b_remove_legacy_font_formats()
OptimizePhase3b ==
    /\ script = "optimize_site" /\ pc = "phase3b"
    /\ LET removed == RemoveFiles(files, {"fonts/fa-solid-900.ttf", "images/fa-solid-900.svg"})
           backed  == BackupFile(removed, EntryCss, "css/entry.IgpDOq8p.css.pre-optimize")
           css     == [p \in 1 .. Len(backed[EntryCss]) |->
                          IF backed[EntryCss][p] = "fa-src-all-formats" THEN "fa-src-woff2"
                          ELSE backed[EntryCss][p]]
       IN  files' = (EntryCss :> css) @@ backed
    /\ pc' = "phase3c"
    /\ UNCHANGED <<script, html0, html, prevHtml, queue, report, cssVars, runs>>

\* phase3c_remove_unused_font_files()
OptimizePhase3c ==
    /\ script = "optimize_site" /\ pc = "phase3c"
    /\ files' = RemoveFiles(files, {"fonts/unused.woff2"})
    /\ pc' = "phase4a"
    /\ UNCHANGED <<script, html0, html, prevHtml, queue, report, cssVars, runs>>

\* html = phase4a_convert_large_pngs_to_webp(html).  cwebp is another
\* program: it converts, or it fails (the png is then left alone), or it is
\* not installed and subprocess.run raises, which ends the run.
OptimizePhase4a ==
    /\ script = "optimize_site" /\ pc = "phase4a"
    /\ IF LargePng \notin DOMAIN files
       THEN /\ pc' = "phase4b"
            /\ UNCHANGED <<html, files>>
       ELSE \E cwebp \in {"converted", "failed", "missing"} :
               CASE cwebp = "converted" ->
                      /\ html' = [p \in 1 .. Len(html) |-> IF html[p] = "png" THEN "webp" ELSE html[p]]
                      /\ files' = (LargeWebp :> <<"binary">>) @@ RemoveFiles(files, {LargePng})
                      /\ pc' = "phase4b"
                 [] cwebp = "failed" ->
                      /\ pc' = "phase4b"
                      /\ UNCHANGED <<html, files>>
                 [] cwebp = "missing" ->
                      /\ pc' = "raised"
                      /\ UNCHANGED <<html, files>>
    /\ UNCHANGED <<script, html0, prevHtml, queue, report, cssVars, runs>>

\* main: html = phase4b_add_lazy_loading(html)
OptimizePhase4b ==
    /\ script = "optimize_site" /\ pc = "phase4b"
    /\ IF LazyRaises(html)
       THEN pc' = "raised" /\ html' = html
       ELSE pc' = "phase1" /\ html' = Phase4bAddLazyLoading(html)
    /\ UNCHANGED <<script, html0, prevHtml, queue, report, cssVars, files, runs>>

\* main: html = phase1_deduplicate_ctas(html), phase2_restore_email_optin
\* (which returns html as it is)
OptimizePhase1 ==
    /\ script = "optimize_site" /\ pc = "phase1"
    /\ html' = Phase1DeduplicateCtas(html)
    /\ pc' = "write"
    /\ UNCHANGED <<script, html0, prevHtml, queue, report, cssVars, files, runs>>

\* main: write index.html
OptimizeWrite ==
    /\ script = "optimize_site" /\ pc = "write"
    /\ files' = ("index.html" :> html) @@ files
    /\ pc' = "written"
    /\ UNCHANGED <<script, html0, html, prevHtml, queue, report, cssVars, runs>>

(* cleanup.main.  The pieces of text of index.html:                          *)
(*   "<picture>" "<source>" "<img>" "</picture>"   tags; "<img>" has         *)
(*                    attributes, as the pattern '<img\s[^>]+>' asks          *)
(*   "class0" "style0" "dac0"   the empty attributes  class="" , style="" ,  *)
(*                    data-animation-class="" , each with the white space    *)
(*                    before it                                              *)
(*   ";" "fwu"        a semicolon, font-weight:undefined                     *)
(*   "icon"           the broken icon declarations of step 6                 *)
(*   ".sel" "{" "}"   a class selector and the braces of a rule              *)
(*   "<div" "></div>" the two halves of <div></div>, between which an        *)
(*                    attribute can stand                                    *)
(*   " "              white space                                            *)
(* and of google-fonts.css: "/*c*/" a comment, and the @font-face blocks     *)
(* "ff Roboto latin", "ff Roboto cyrillic", "ff Roboto" (no unicode-range),  *)
(* "ff Lato latin" (a family outside KEEP_FONTS), "ff" (no font-family).     *)

\* step 1: re.sub(r'<picture[^>]*>.*?</picture>', simplify_picture, html) from
\* offset i on
RECURSIVE SimplifyPictures(_, _)
SimplifyPictures(h, i) ==
    IF i >= Len(h) THEN <<>>
    ELSE LET close == Find(h, "</picture>", i + 1)
             img   == Find(h, "<img>", i + 1)
         IN  IF h[i + 1] = "<picture>" /\ close # -1
             THEN (IF img # -1 /\ img < close THEN <<"<img>">> ELSE Slice(h, i, close + 1))
                     \o SimplifyPictures(h, close + 1)
             ELSE <<h[i + 1]>> \o SimplifyPictures(h, i + 1)

\* step 5: re.sub(r';?font-weight:\s*undefined', '', html)
RECURSIVE DropFontWeight(_, _)
DropFontWeight(h, i) ==
    IF i >= Len(h) THEN <<>>
    ELSE IF h[i + 1] = ";" /\ i + 1 < Len(h) /\ h[i + 2] = "fwu" THEN DropFontWeight(h, i + 2)
    ELSE IF h[i + 1] = "fwu" THEN DropFontWeight(h, i + 1)
    ELSE <<h[i + 1]>> \o DropFontWeight(h, i + 1)

\* step 7: re.sub(r'(\.[a-zA-Z0-9_-]+(?::[\w-]+)?)\{\s*\}', '', html)
RECURSIVE DropEmptyRules(_, _)
DropEmptyRules(h, i) ==
    IF i >= Len(h) THEN <<>>
    ELSE LET j == SkipSpaces(h, i + 2)
         IN  IF /\ h[i + 1] = ".sel" /\ i + 1 < Len(h) /\ h[i + 2] = "{"
                /\ j < Len(h) /\ h[j + 1] = "}"
             THEN DropEmptyRules(h, j + 1)
             ELSE <<h[i + 1]>> \o DropEmptyRules(h, i + 1)

\* step 8: re.sub(r'<div></div>', '', html)
RECURSIVE DropEmptyDivs(_, _)
DropEmptyDivs(h, i) ==
    IF i >= Len(h) THEN <<>>
    ELSE IF h[i + 1] = "<div" /\ i + 1 < Len(h) /\ h[i + 2] = "></div>" THEN DropEmptyDivs(h, i + 2)
    ELSE <<h[i + 1]>> \o DropEmptyDivs(h, i + 1)

\* the value of html that cleanup_html(path) writes
CleanupHtmlText(h) ==
    LET h1 == SimplifyPictures(h, 0)
        h2 == Without(h1, "class0")
        h3 == Without(h2, "style0")
        h4 == Without(h3, "dac0")
        h5 == DropFontWeight(h4, 0)
        h6 == Without(h5, "icon")
        h7 == DropEmptyRules(h6, 0)
    IN  DropEmptyDivs(h7, 0)

IsFontFace(tok) ==
    tok \in {"ff Roboto latin", "ff Roboto cyrillic", "ff Roboto", "ff Lato latin", "ff"}

\* re.split(r'(?=@font-face)', css): the offsets where a part begins
PartStarts(css) == {0} \cup {p \in 1 .. Len(css) - 1 : IsFontFace(css[p + 1])}

\* the part that begins at offset a
PartAt(css, a) ==
    LET later == {b \in PartStarts(css) : b > a}
    IN  Slice(css, a, IF later = {} THEN Len(css) ELSE Min(later))

\* the loop body of cleanup_fonts_css: the part is appended to kept_parts
KeepsPart(part) ==
    \/ part = <<>>
    \/ ~IsFontFace(part[1])
    \/ part[1] \in {"ff", "ff Roboto latin", "ff Roboto"}

\* ''.join(kept_parts) for the parts that begin at offset a or later
RECURSIVE JoinKeptParts(_, _)
JoinKeptParts(css, a) ==
    IF a >= Len(css) THEN <<>>
    ELSE LET part == PartAt(css, a)
         IN  (IF KeepsPart(part) THEN part ELSE <<>>) \o JoinKeptParts(css, a + Len(part))

\* new_css of cleanup_fonts_css(path)
CleanupFontsText(css) == JoinKeptParts(css, 0)

CleanupPieces ==
    << <<" ">>, <<"<picture>", "<source>", "<img>", "</picture>">>, <<"<picture>", "<source>", "</picture>">>,
       <<"<div", "class0", "></div>">>, <<"<div", "style0", "dac0", ">">>, <<"<div", "></div>">>,
       <<".sel", "{", "fwu", "}">>, <<".sel", "{", "icon", ";", "fwu", " ", "}">>, <<".sel", "{", ";", "}">> >>

RECURSIVE CleanupFlat(_)
CleanupFlat(ps) == IF ps = <<>> THEN <<>> ELSE CleanupPieces[Head(ps)] \o CleanupFlat(Tail(ps))

CleanupDocs ==
    {CleanupFlat(ps) : ps \in UNION {[1 .. n -> 1 .. Len(CleanupPieces)] : n \in 0 .. MaxSitePieces}}

FontsCssTexts ==
    {"/*c*/", "ff Roboto latin", "ff Roboto cyrillic", "ff Roboto", "ff Lato latin", "ff"}

FontsCssDocs == UNION {[1 .. n -> FontsCssTexts] : n \in 0 .. MaxSitePieces}

\* cleanup_html(INDEX_HTML), and the line main prints after it, which divides
\* by the size the file had
CleanupHtml ==
    /\ script = "cleanup" /\ pc = "start"
    /\ html' = CleanupHtmlText(files["index.html"])
    /\ files' = ("index.html" :> CleanupHtmlText(files["index.html"])) @@ files
    /\ pc' = IF files["index.html"] = <<>> THEN "raised" ELSE "fonts"
    /\ UNCHANGED <<script, html0, prevHtml, queue, report, cssVars, runs>>

\* cleanup_fonts_css(FONTS_CSS), and the lines main prints after it
CleanupFontsCss ==
    /\ script = "cleanup" /\ pc = "fonts"
    /\ files' = (GoogleFontsCss :> CleanupFontsText(files[GoogleFontsCss])) @@ files
    /\ pc' = IF files[GoogleFontsCss] = <<>> THEN "raised" ELSE "written"
    /\ UNCHANGED <<script, html0, html, prevHtml, queue, report, cssVars, runs>>

\* the documents each script is first run on
RunDocs(sc) ==
    CASE sc = "rename_ids" -> RenameDocs(sc)
      [] sc = "merge" -> MergeMainDocs
      [] sc = "optimize_site" -> SiteDocs
      [] sc = "cleanup" -> CleanupDocs

InitRuns ==
    /\ script \in {"rename_ids", "merge", "optimize_site", "cleanup"}
    /\ pc = "start"
    /\ html0 \in RunDocs(script)
    /\ html = <<>> /\ prevHtml = <<>> /\ queue = <<>> /\ report = <<>>
    /\ \/ script \in {"rename_ids", "merge"} /\ files = ("index.html" :> html0)
       \/ /\ script = "optimize_site"
          /\ \E png \in BOOLEAN :
                files = ("index.html" :> html0) @@ SiteFiles
                           @@ (IF png THEN (LargePng :> <<"binary">>) ELSE <<>>)
       \/ /\ script = "cleanup"
          /\ \E css \in FontsCssDocs : files = ("index.html" :> html0) @@ (GoogleFontsCss :> css)
    /\ runs = 0
    /\ NoCss

NextRuns ==
    \/ RenameIdsOpen
    \/ RenameIdsIter
    \/ RenameIdsWrite
    \/ MergeMainOpen
    \/ Phase2Iter
    \/ Phase2Return
    \/ MergeMainPhase5
    \/ MergeMainPhase6
    \/ MergeMainWrite
    \/ OptimizeOpen
    \/ OptimizePhase5
    \/ OptimizePhase3a
    \/ OptimizePhase3b
    \/ OptimizePhase3c
    \/ OptimizePhase4a
    \/ OptimizePhase4b
    \/ OptimizePhase1
    \/ OptimizeWrite
    \/ CleanupHtml
    \/ CleanupFontsCss
    \/ RunAgain

SpecRuns == InitRuns /\ [][NextRuns]_vars

----------------------------------------------------------------------------
\* the run of rename_ids that has just written is the second one
SecondRunWritten == script = "rename_ids" /\ runs = 1 /\ pc = "written"

\* the document the current run of rename_ids read, as its backup holds it
RunInput == files["index.html.pre-rename"]

\* the run left the document as it read it and counted 0 for every pair
RunChangedNothing ==
    /\ files["index.html"] = RunInput
    /\ \A n \in 1 .. Len(report) : report[n].count = 0

\* C21 as stated: a second run of rename_ids changes nothing and counts 0.
C21_Original == SecondRunWritten => RunChangedNothing

(* C21: a second run of rename_ids leaves the document unchanged and counts  *)
(* 0 for every pair exactly when the document the first run wrote holds no    *)
(* old identifier.  It holds none unless, in the original document, the old   *)
(* row identifier stood directly before the text 'ection-qV2_UC8cuJ': there   *)
(* the 's' that ends the new row identifier completes the old section         *)
(* identifier, which the second run then replaces.                            *)
C21_RerunIdempotent ==
    SecondRunWritten
       => /\ RunChangedNothing <=> \A n \in 1 .. Len(AllMaps) : FindSeq(RunInput, AllMaps[n].old, 0) = -1
          /\ FindSeq(html0, AllMaps[2].old \o <<"ection-qV2_UC8cuJ">>, 0) = -1 => RunChangedNothing
          /\ FindSeq(html0, AllMaps[2].old \o <<"ection-qV2_UC8cuJ">>, 0) # -1
                => report[1].count > 0 /\ files["index.html"] # RunInput

\* the first run renamed both identifiers and the second run changed nothing
C21_Witness ==
    /\ SecondRunWritten
    /\ html0 = AllMaps[1].old \o AllMaps[2].old
    /\ RunInput = AllMaps[1].new \o AllMaps[2].new
    /\ files["index.html"] = RunInput
    /\ report[1].count = 0 /\ report[2].count = 0

(* C30: for merge_responsive.main and rename_ids, after any number of runs   *)
(* the backup file (index.html.pre-merge, index.html.pre-rename) holds the   *)
(* content index.html had before the first run.                              *)
C30_BackupHoldsOriginal ==
    (script \in {"merge", "rename_ids"} /\ BackupPath(script) \in DOMAIN files)
        => files[BackupPath(script)] = html0

(* C23: backup_file copies only when the backup does not exist yet, so over  *)
(* any number of runs of optimize_site index.html.pre-optimize holds the     *)
(* content index.html had before the first run (and the backups of the two   *)
(* stylesheets hold what these held before the first run).                   *)
C23_BackupKeepsFirst ==
    script = "optimize_site"
       => /\ pc # "start" => BackupPath("optimize_site") \in DOMAIN files
          /\ BackupPath("optimize_site") \in DOMAIN files
                => files[BackupPath("optimize_site")] = html0
          /\ "css/google-fonts.css.pre-optimize" \in DOMAIN files
                => files["css/google-fonts.css.pre-optimize"] = SiteFiles[GoogleFontsCss]
          /\ "css/entry.IgpDOq8p.css.pre-optimize" \in DOMAIN files
                => files["css/entry.IgpDOq8p.css.pre-optimize"] = SiteFiles[EntryCss]

\* the third run has written; the first two changed index.html, each in its
\* way, and the backup still is the original
C23_Witness ==
    /\ script = "optimize_site" /\ runs = 2 /\ pc = "written"
    /\ files["index.html"] # html0
    /\ LargeWebp \in DOMAIN files
    /\ \E p \in 1 .. Len(html0) : html0[p] = "png"
    /\ files[BackupPath("optimize_site")] = html0

\* C22: cleanup.py creates a .bak backup of a file before it overwrites it:
\* once cleanup_html has written index.html in the first run, index.html.bak
\* exists and holds the content index.html had before the run, and once
\* cleanup_fonts_css has written google-fonts.css, its .bak copy exists.
C22_BakBeforeOverwrite ==
    (script = "cleanup" /\ runs = 0)
       => /\ pc # "start"
             => /\ BackupPath("cleanup") \in DOMAIN files
                /\ files[BackupPath("cleanup")] = html0
          /\ pc = "written" => "css/google-fonts.css.bak" \in DOMAIN files

\* a text without the newline it ends with
TrimNewline(text) ==
    IF text # <<>> /\ Last(text) = "ws" THEN Slice(text, 0, Len(text) - 1) ELSE text

\* C24: phase4_remove_dead_css treats each style block on its own: the text
\* before the first marker (but for a newline the removal of the first block
\* takes) starts the result, the text from '</style></head>' on ends it, and
\* every block without a mobile id is still there, but for a newline at its
\* end that the removal of the next block takes.
C24_BlocksIndependent ==
    (script = "phase4" /\ pc = "returned" /\ Find(html0, "</style></head>", 0) # -1)
       => LET head_end == Find(html0, "</style></head>", 0)
              head == Slice(html0, 0, head_end)
              body == Slice(html0, head_end, Len(html0))
              first == IF MarkerStarts(head) = {} THEN head_end ELSE Min(MarkerStarts(head))
              before == TrimNewline(Slice(head, 0, first))
          IN  /\ Slice(html, 0, Len(before)) = before
              /\ Slice(html, Len(html) - Len(body), Len(html)) = body
              /\ \A p \in MarkerStarts(head) :
                    ExtractIds(Slice(head, p, BlockEnd(head, p))) \cap MobileIdSet = {}
                       => FindSeq(html, TrimNewline(Slice(head, p, BlockEnd(head, p))), 0) # -1

\* C28: _filter_mobile_rules accounts for every byte of its input: the
\* length of the text it returns plus the count of removed bytes it returns
\* is the length of block_text.
C28_EveryByteAccounted ==
    (script = "filter" /\ pc = "returned") => Len(filtered) + removed_bytes = Len(block_text)

\* the number of occurrences of font_link in h
CountFontLinks(h) == Cardinality({p \in 0 .. Len(h) - 2 : Slice(h, p, p + 2) = FontLink})

\* when step 19 has ended, a document that held font_link holds it once
OnlyFirstLeft == (pc = "done" /\ CountFontLinks(html0) >= 1) => CountFontLinks(html) = 1

\* C25: step 19 of clean_html ends for every document (a run in which the
\* document outgrows MaxFontLinkLen is not followed further), and when it
\* has ended a document that held font_link holds it exactly once.
C25_KeepsOnlyFirst ==
    /\ <>(script = "clean_html" /\ (pc = "done" \/ Len(html) > MaxFontLinkLen))
    /\ []OnlyFirstLeft

\* C26: the offset at which a depth scan starts holds a token the scan's own
\* open pattern '<div[\s>]' matches, so the first token the scan counts is
\* an open token and the depth is never negative.
C26_StartIsOpenToken ==
    (script \in {"merge", "nbs"} /\ Len(report) >= 1 /\ report[Len(report)].start # -1)
        => OpenAt(prevHtml, report[Len(report)].start)

\* C27: from every offset of every document the scan over the matches of
\* div_tag_re and the scan character by character give the same result: the
\* same end offset, or both none.  It is so for the span the loop has just
\* looked for and for every other offset of the document.
C27_ScansAgree ==
    script \in {"merge", "nbs"}
       => /\ \A from \in 0 .. Len(html) : Phase2Scan(html, from, 0) = NbsScan(html, from, 0)
          /\ (Len(report) >= 1 /\ report[Len(report)].start # -1)
                => /\ report[Len(report)].end = Phase2Scan(prevHtml, report[Len(report)].start, 0)
                   /\ report[Len(report)].end = NbsScan(prevHtml, report[Len(report)].start, 0)

\* a section with a div inside has just been removed from a document in
\* which a scan from some other offset finds no end
C27_Witness ==
    /\ script \in {"merge", "nbs"}
    /\ Len(report) >= 1
    /\ report[Len(report)].outcome = "removed"
    /\ OpenAt(prevHtml, report[Len(report)].start)
    /\ \E p \in report[Len(report)].start + 1 .. report[Len(report)].end - 1 : OpenAt(prevHtml, p)
    /\ \E from \in 0 .. Len(prevHtml) :
          /\ Phase2Scan(prevHtml, from, 0) = -1
          /\ \E p \in from .. Len(prevHtml) - 1 : CloseAt(prevHtml, p)

\* C29: the names one generate_*_name function returns for the elements of
\* one type, with one set used_names, are pairwise distinct, the numbered
\* fallback names included.
C29_NamesDistinct ==
    script \in {"generate_heading_name", "generate_subheading_name"}
       => \A m, n \in 1 .. Len(report) : m # n => report[m].new # report[n].new

====
